---- MODULE Spec2Model ----
(***************************************************************************)
(* Model of get-container-id: the memoizing resolver podid.Get (podid.go   *)
(* lines 44-64), run by several goroutines over the package-level cache    *)
(* (cachedID, hasID) guarded by the sync.RWMutex mu, and the mount-table   *)
(* scanner podid.GetFromFile (podid.go lines 68-100).                      *)
(***************************************************************************)
EXTENDS Integers, Sequences, FiniteSets, TLC

\* ---------------------------------------------------------------- bounds
NumProcs == 2
MaxGets == 3

Procs == 1..NumProcs

\* Go's nil error and the zero value of a string.
NoErr == "nil"
Empty == ""
\* No goroutine holds the write side of mu.
NoWriter == 0

\* Identifiers a provider may hand back, and the errors it may fail with.
IDs == {"id_a", "id_b"}
ErrPodIDNotFound == "ErrPodIDNotFound"
Errs == {ErrPodIDNotFound, "ErrIO"}

\* What one invocation of getPodIDFunc can return: (id, nil) on success,
\* (anything, err) on failure.  getPodIDFunc is a package variable that the
\* tests replace, so the outcome of each invocation is unconstrained.
ProviderOutcomes ==
    {[id |-> i, err |-> NoErr] : i \in IDs \cup {Empty}}
      \cup {[id |-> i, err |-> e] : i \in {Empty, "id_a"}, e \in Errs}

VARIABLES
    cachedID,   \* podid.go:33
    hasID,      \* podid.go:34
    mu,         \* podid.go:35, [readers: set of goroutines, writer: goroutine or NoWriter]
    pc,         \* per goroutine: the line of Get it is about to execute
    id,         \* per goroutine: local id of Get
    err,        \* per goroutine: local err of Get
    nCallers,   \* number of goroutines calling Get concurrently
    gets,       \* number of Get calls started
    calls,      \* number of provider invocations (the tests' calls counter)
    provided,   \* history: identifiers returned by successful provider invocations
    commits,    \* history: number of completed write-locked sections
    flips,      \* history: number of times hasID went from false to true
    cur,        \* history, per goroutine: facts about the call in progress
    dirty,      \* history, per goroutine: the call in progress changed the cache
    log         \* history: the completed Get calls, in order of return

getVars == <<cachedID, hasID, mu, pc, id, err, nCallers, gets, calls,
             provided, commits, flips, cur, dirty, log>>

\* The cache as a pair, for before/after comparisons.
Cache == <<cachedID, hasID>>

\* The step changed one of the two cache fields.
Touched == cachedID' # cachedID \/ hasID' # hasID

NoCall == [prov |-> <<>>, invoked |-> 0, commitsAtLock |-> 0, cacheAtLock |-> Empty]

\* The record a returning Get leaves in the log: what it returned, what its
\* provider invocation (if any) returned, and what it observed.
Returned(p, rid, rerr, d) ==
    [proc |-> p, id |-> rid, err |-> rerr, prov |-> cur[p].prov,
     invoked |-> cur[p].invoked, calls |-> calls, dirty |-> d,
     commitsAtLock |-> cur[p].commitsAtLock, cacheAtLock |-> cur[p].cacheAtLock]

GetInit ==
    /\ cachedID = Empty
    /\ hasID = FALSE
    /\ mu = [readers |-> {}, writer |-> NoWriter]
    /\ pc = [p \in Procs |-> "idle"]
    /\ id = [p \in Procs |-> Empty]
    /\ err = [p \in Procs |-> NoErr]
    /\ gets = 0
    /\ calls = 0
    /\ provided = {}
    /\ commits = 0
    /\ flips = 0
    /\ cur = [p \in Procs |-> NoCall]
    /\ dirty = [p \in Procs |-> FALSE]
    /\ log = <<>>

\* ------------------------------------------------------------ sync.RWMutex
CanRLock == mu.writer = NoWriter
CanLock == mu.writer = NoWriter /\ mu.readers = {}

\* ------------------------------------------------------------------- Get
\* A goroutine enters Get (line 44).
Call(p) ==
    /\ pc[p] = "idle"
    /\ p <= nCallers
    /\ gets < MaxGets
    /\ gets' = gets + 1
    /\ pc' = [pc EXCEPT ![p] = "l45"]
    /\ id' = [id EXCEPT ![p] = Empty]
    /\ err' = [err EXCEPT ![p] = NoErr]
    /\ cur' = [cur EXCEPT ![p] = NoCall]
    /\ dirty' = [dirty EXCEPT ![p] = FALSE]
    /\ UNCHANGED <<cachedID, hasID, mu, nCallers, calls, provided, commits, flips, log>>

\* mu.RLock() (line 45).
RLock(p) ==
    /\ pc[p] = "l45"
    /\ CanRLock
    /\ mu' = [mu EXCEPT !.readers = @ \cup {p}]
    /\ pc' = [pc EXCEPT ![p] = "l46"]
    /\ cur' = [cur EXCEPT ![p].commitsAtLock = commits, ![p].cacheAtLock = cachedID]
    /\ UNCHANGED <<cachedID, hasID, id, err, nCallers, gets, calls, provided,
                   commits, flips, dirty, log>>

\* Mutant of TestHasID: presence is judged by the value instead of the flag.
TestHasIDByValue(p) ==
    /\ pc[p] = "l46"
    /\ pc' = [pc EXCEPT ![p] = IF cachedID # Empty THEN "l47" ELSE "l51"]
    /\ UNCHANGED <<cachedID, hasID, mu, id, err, nCallers, gets, calls, provided,
                   commits, flips, cur, dirty, log>>

\* if hasID (line 46).
TestHasID(p) ==
    /\ pc[p] = "l46"
    /\ pc' = [pc EXCEPT ![p] = IF hasID THEN "l47" ELSE "l51"]
    /\ UNCHANGED <<cachedID, hasID, mu, id, err, nCallers, gets, calls, provided,
                   commits, flips, cur, dirty, log>>

\* id := cachedID (line 47).
ReadCachedID(p) ==
    /\ pc[p] = "l47"
    /\ id' = [id EXCEPT ![p] = cachedID]
    /\ pc' = [pc EXCEPT ![p] = "l48"]
    /\ UNCHANGED <<cachedID, hasID, mu, err, nCallers, gets, calls, provided,
                   commits, flips, cur, dirty, log>>

\* mu.RUnlock(); return id, nil (lines 48-49).
ReturnHit(p) ==
    /\ pc[p] = "l48"
    /\ mu' = [mu EXCEPT !.readers = @ \ {p}]
    /\ pc' = [pc EXCEPT ![p] = "idle"]
    /\ log' = Append(log, Returned(p, id[p], NoErr, dirty[p]))
    /\ UNCHANGED <<cachedID, hasID, id, err, nCallers, gets, calls, provided,
                   commits, flips, cur, dirty>>

\* Mutant of RUnlockMiss: the read lock is kept while the provider runs.
RUnlockMissKeepsLock(p) ==
    /\ pc[p] = "l51"
    /\ pc' = [pc EXCEPT ![p] = "l53"]
    /\ UNCHANGED <<cachedID, hasID, mu, id, err, nCallers, gets, calls, provided,
                   commits, flips, cur, dirty, log>>

\* mu.RUnlock() on a miss (line 51).
RUnlockMiss(p) ==
    /\ pc[p] = "l51"
    /\ mu' = [mu EXCEPT !.readers = @ \ {p}]
    /\ pc' = [pc EXCEPT ![p] = "l53"]
    /\ UNCHANGED <<cachedID, hasID, id, err, nCallers, gets, calls, provided,
                   commits, flips, cur, dirty, log>>

\* id, err := getPodIDFunc(); if err != nil (lines 53-54).
InvokeProvider(p) ==
    /\ pc[p] = "l53"
    /\ \E out \in ProviderOutcomes :
          /\ id' = [id EXCEPT ![p] = out.id]
          /\ err' = [err EXCEPT ![p] = out.err]
          /\ cur' = [cur EXCEPT ![p].prov = <<out>>, ![p].invoked = @ + 1]
          /\ provided' = IF out.err = NoErr THEN provided \cup {out.id} ELSE provided
          /\ pc' = [pc EXCEPT ![p] = IF out.err # NoErr THEN "l55" ELSE "l58"]
    /\ calls' = calls + 1
    /\ UNCHANGED <<cachedID, hasID, mu, nCallers, gets, commits, flips, dirty, log>>

\* Mutant of ReturnErr: the failure is cached as a present, empty entry.
ReturnErrCachesFailure(p) ==
    /\ pc[p] = "l55"
    /\ pc' = [pc EXCEPT ![p] = "idle"]
    /\ cachedID' = Empty
    /\ hasID' = TRUE
    /\ dirty' = [dirty EXCEPT ![p] = @ \/ Touched]
    /\ log' = Append(log, Returned(p, Empty, err[p], dirty'[p]))
    /\ UNCHANGED <<mu, id, err, nCallers, gets, calls, provided, commits, flips, cur>>

\* Mutant of ReturnErr: a failure invalidates the cache.
ReturnErrInvalidates(p) ==
    /\ pc[p] = "l55"
    /\ pc' = [pc EXCEPT ![p] = "idle"]
    /\ cachedID' = Empty
    /\ hasID' = FALSE
    /\ dirty' = [dirty EXCEPT ![p] = @ \/ Touched]
    /\ log' = Append(log, Returned(p, Empty, err[p], dirty'[p]))
    /\ UNCHANGED <<mu, id, err, nCallers, gets, calls, provided, commits, flips, cur>>

\* Mutant of ReturnErr: the provider's id is returned next to the error.
ReturnErrKeepsID(p) ==
    /\ pc[p] = "l55"
    /\ pc' = [pc EXCEPT ![p] = "idle"]
    /\ UNCHANGED <<cachedID, hasID>>
    /\ dirty' = [dirty EXCEPT ![p] = @ \/ Touched]
    /\ log' = Append(log, Returned(p, id[p], err[p], dirty'[p]))
    /\ UNCHANGED <<mu, id, err, nCallers, gets, calls, provided, commits, flips, cur>>

\* return "", err (line 55).
ReturnErr(p) ==
    /\ pc[p] = "l55"
    /\ pc' = [pc EXCEPT ![p] = "idle"]
    /\ UNCHANGED <<cachedID, hasID>>
    /\ dirty' = [dirty EXCEPT ![p] = @ \/ Touched]
    /\ log' = Append(log, Returned(p, Empty, err[p], dirty'[p]))
    /\ UNCHANGED <<mu, id, err, nCallers, gets, calls, provided, commits, flips, cur>>

\* Mutant of Lock: the writer does not wait for the readers to leave.
LockIgnoresReaders(p) ==
    /\ pc[p] = "l58"
    /\ mu.writer = NoWriter
    /\ mu' = [mu EXCEPT !.writer = p]
    /\ pc' = [pc EXCEPT ![p] = "l59"]
    /\ UNCHANGED <<cachedID, hasID, id, err, nCallers, gets, calls, provided,
                   commits, flips, cur, dirty, log>>

\* mu.Lock() (line 58).
Lock(p) ==
    /\ pc[p] = "l58"
    /\ CanLock
    /\ mu' = [mu EXCEPT !.writer = p]
    /\ pc' = [pc EXCEPT ![p] = "l59"]
    /\ UNCHANGED <<cachedID, hasID, id, err, nCallers, gets, calls, provided,
                   commits, flips, cur, dirty, log>>

\* Mutant of WriteCachedID: the assignment misses the package variable.
WriteCachedIDShadowed(p) ==
    /\ pc[p] = "l59"
    /\ UNCHANGED <<cachedID, hasID>>
    /\ pc' = [pc EXCEPT ![p] = "l60"]
    /\ dirty' = [dirty EXCEPT ![p] = @ \/ Touched]
    /\ UNCHANGED <<mu, id, err, nCallers, gets, calls, provided, commits, flips, cur, log>>

\* cachedID = id (line 59).
WriteCachedID(p) ==
    /\ pc[p] = "l59"
    /\ cachedID' = id[p]
    /\ UNCHANGED hasID
    /\ pc' = [pc EXCEPT ![p] = "l60"]
    /\ dirty' = [dirty EXCEPT ![p] = @ \/ Touched]
    /\ UNCHANGED <<mu, id, err, nCallers, gets, calls, provided, commits, flips, cur, log>>

\* Mutant of WriteHasID: the flag is never raised.
WriteHasIDForgets(p) ==
    /\ pc[p] = "l60"
    /\ UNCHANGED <<cachedID, hasID>>
    /\ flips' = flips
    /\ pc' = [pc EXCEPT ![p] = "l61"]
    /\ dirty' = [dirty EXCEPT ![p] = @ \/ Touched]
    /\ UNCHANGED <<mu, id, err, nCallers, gets, calls, provided, commits, cur, log>>

\* hasID = true (line 60).
WriteHasID(p) ==
    /\ pc[p] = "l60"
    /\ hasID' = TRUE
    /\ UNCHANGED cachedID
    /\ flips' = IF hasID THEN flips ELSE flips + 1
    /\ pc' = [pc EXCEPT ![p] = "l61"]
    /\ dirty' = [dirty EXCEPT ![p] = @ \/ Touched]
    /\ UNCHANGED <<mu, id, err, nCallers, gets, calls, provided, commits, cur, log>>

\* Mutant of ReturnStored: Get returns without releasing the write lock.
ReturnStoredKeepsLock(p) ==
    /\ pc[p] = "l61"
    /\ commits' = commits + 1
    /\ pc' = [pc EXCEPT ![p] = "idle"]
    /\ log' = Append(log, Returned(p, id[p], NoErr, dirty[p]))
    /\ UNCHANGED <<cachedID, hasID, mu, id, err, nCallers, gets, calls, provided,
                   flips, cur, dirty>>

\* mu.Unlock(); return id, nil (lines 61-63).
ReturnStored(p) ==
    /\ pc[p] = "l61"
    /\ mu' = [mu EXCEPT !.writer = NoWriter]
    /\ commits' = commits + 1
    /\ pc' = [pc EXCEPT ![p] = "idle"]
    /\ log' = Append(log, Returned(p, id[p], NoErr, dirty[p]))
    /\ UNCHANGED <<cachedID, hasID, id, err, nCallers, gets, calls, provided,
                   flips, cur, dirty>>

Get(p) ==
    \/ Call(p)
    \/ RLock(p)
    \/ TestHasID(p)
    \/ ReadCachedID(p)
    \/ ReturnHit(p)
    \/ RUnlockMiss(p)
    \/ InvokeProvider(p)
    \/ ReturnErr(p)
    \/ Lock(p)
    \/ WriteCachedID(p)
    \/ WriteHasID(p)
    \/ ReturnStored(p)

\* ============================================================ GetFromFile
MaxLines == 3

\* scanner.Buffer(make([]byte, 0, 64*1024), 1024*1024) (line 76): the
\* capacity the scanner's buffer starts with and the size it may grow to.
StartBufSize == 65536
MaxTokenSize == 1048576

MountInfoPath == "/proc/self/mountinfo"

\* ------------------------------------------------------------ podIDRegex
\* /pods/([0-9a-f]{8}-[0-9a-f]{4}-[0-9a-f]{4}-[0-9a-f]{4}-[0-9a-f]{12})/
\* as a sequence of character classes, one per position.
HexLower == {"0", "1", "2", "3", "4", "5", "6", "7", "8", "9",
             "a", "b", "c", "d", "e", "f"}

Rep(class, n) == [k \in 1..n |-> class]

\* Mutant of podIDRegex: the hex classes also accept uppercase digits.
podIDRegexAnyCase ==
    LET hex == HexLower \cup {"A", "B", "C", "D", "E", "F"}
    IN  <<{"/"}, {"p"}, {"o"}, {"d"}, {"s"}, {"/"}>>
          \o Rep(hex, 8) \o <<{"-"}>>
          \o Rep(hex, 4) \o <<{"-"}>>
          \o Rep(hex, 4) \o <<{"-"}>>
          \o Rep(hex, 4) \o <<{"-"}>>
          \o Rep(hex, 12)
          \o <<{"/"}>>

podIDRegex ==
    <<{"/"}, {"p"}, {"o"}, {"d"}, {"s"}, {"/"}>>
      \o Rep(HexLower, 8) \o <<{"-"}>>
      \o Rep(HexLower, 4) \o <<{"-"}>>
      \o Rep(HexLower, 4) \o <<{"-"}>>
      \o Rep(HexLower, 4) \o <<{"-"}>>
      \o Rep(HexLower, 12)
      \o <<{"/"}>>

\* The capture group: the positions of the pattern between "/pods/" and "/".
GroupFirst == 7
GroupLast == 42

\* The pattern matches the text starting at position i.
MatchAt(text, i) ==
    /\ i + Len(podIDRegex) - 1 <= Len(text)
    /\ \A k \in 1..Len(podIDRegex) : text[i + k - 1] \in podIDRegex[k]

\* podIDRegex.FindStringSubmatch(line) (line 85): nil when nothing matches,
\* otherwise the leftmost match followed by its capture group.
FindStringSubmatch(text) ==
    LET starts == {i \in 1..Len(text) : MatchAt(text, i)}
    IN  IF starts = {} THEN <<>>
        ELSE LET i == CHOOSE m \in starts : \A n \in starts : m <= n
             IN  <<SubSeq(text, i, i + Len(podIDRegex) - 1),
                   SubSeq(text, i + GroupFirst - 1, i + GroupLast - 1)>>

\* ---------------------------------------------------------- mount tables
\* TextNone: "/var/lib/containers/abc"
TextNone ==
    <<"/", "v", "a", "r", "/", "l", "i", "b", "/", "c", "o", "n", "t", "a",
     "i", "n", "e", "r", "s", "/", "a", "b", "c">>
\* TextA: "/kubelet/pods/036da4f7-d553-4eb6-9802-90f81041a412/etc-hosts"
TextA ==
    <<"/", "k", "u", "b", "e", "l", "e", "t", "/", "p", "o", "d", "s", "/",
     "0", "3", "6", "d", "a", "4", "f", "7", "-", "d", "5", "5", "3", "-",
     "4", "e", "b", "6", "-", "9", "8", "0", "2", "-", "9", "0", "f", "8",
     "1", "0", "4", "1", "a", "4", "1", "2", "/", "e", "t", "c", "-", "h",
     "o", "s", "t", "s">>
\* TextB: "/pods/12345678-90ab-cdef-1234-567890abcdef/etc-hosts"
TextB ==
    <<"/", "p", "o", "d", "s", "/", "1", "2", "3", "4", "5", "6", "7", "8",
     "-", "9", "0", "a", "b", "-", "c", "d", "e", "f", "-", "1", "2", "3",
     "4", "-", "5", "6", "7", "8", "9", "0", "a", "b", "c", "d", "e", "f",
     "/", "e", "t", "c", "-", "h", "o", "s", "t", "s">>
UUIDA ==
    <<"0", "3", "6", "d", "a", "4", "f", "7", "-", "d", "5", "5", "3", "-",
     "4", "e", "b", "6", "-", "9", "8", "0", "2", "-", "9", "0", "f", "8",
     "1", "0", "4", "1", "a", "4", "1", "2">>
UUIDB ==
    <<"1", "2", "3", "4", "5", "6", "7", "8", "-", "9", "0", "a", "b", "-",
     "c", "d", "e", "f", "-", "1", "2", "3", "4", "-", "5", "6", "7", "8",
     "9", "0", "a", "b", "c", "d", "e", "f">>

\* A line of the file: its text and the number of filler bytes (blanks)
\* that follow the text on the same line.
LongPad == 71680
HugePad == 1048576

LineLen(l) == Len(l.text) + l.pad

\* The line made of the text and as many filler bytes as bring it to n bytes.
PadTo(text, n) == [text |-> text, pad |-> n - Len(text)]

SampleLines ==
    {[text |-> TextNone, pad |-> 0],
     [text |-> TextA, pad |-> 0],
     [text |-> TextB, pad |-> 0],
     [text |-> TextA, pad |-> LongPad],
     [text |-> TextB, pad |-> HugePad],
     PadTo(TextA, MaxTokenSize - 1),
     PadTo(TextB, MaxTokenSize)}

\* Mutant of TooLong: no line is too long for the scanner.
TooLongNever(l) == FALSE

\* Mutant of TooLong: the buffer does not grow beyond its first capacity.
TooLongForStartBuf(l) == LineLen(l) >= StartBufSize

\* The scanner gives up on a line that does not fit its largest buffer.
TooLong(l) == LineLen(l) >= MaxTokenSize

\* No read of the file fails.
NoFault == -1

\* A file: its lines, the number of complete lines after which reading fails
\* with an I/O error (NoFault when it never does), and the number of bytes of
\* the following line that were still read before the error.
SeqsUpTo(S, n) == UNION {[1..k -> S] : k \in 0..n}

CutPoints == {0, 20, 51}

Files ==
    {f \in [lines : SeqsUpTo(SampleLines, MaxLines),
            fault : {NoFault} \cup (0..MaxLines),
            cut : CutPoints] :
        f.cut > 0 => f.fault # NoFault /\ f.fault < Len(f.lines)}

\* Paths GetFromFile is called with.
Paths == {MountInfoPath, "/tmp/mountinfo"}

\* The smaller of two numbers.
Min(a, b) == IF a <= b THEN a ELSE b

\* Error values built by GetFromFile.
OpenError(path, e) == <<"failed to open", path, e>>
ReadError(path, e) == <<"error reading", path, e>>

VARIABLES
    path,       \* the argument of GetFromFile
    file,       \* the content found at path
    openErr,    \* the error os.Open returns, NoErr when it succeeds
    fpc,        \* the line of GetFromFile about to be executed
    fileOpen,   \* the handle returned by os.Open is open
    scanned,    \* number of lines scanner.Scan() has handed out
    line,       \* scanner.Text() of the current line
    scanErr,    \* scanner.Err()
    fret        \* return value of GetFromFile

scanVars == <<path, file, openErr, fpc, fileOpen, scanned, line, scanErr, fret>>

NoRet == [id |-> <<>>, err |-> "none"]

ScanIdle ==
    /\ fpc = "l69"
    /\ fileOpen = FALSE
    /\ scanned = 0
    /\ line = <<>>
    /\ scanErr = NoErr
    /\ fret = NoRet

\* Mutant of Open: the error names the default path, not the argument.
OpenNamesDefaultPath ==
    /\ fpc = "l69"
    /\ IF openErr # NoErr
       THEN /\ fret' = [id |-> <<>>, err |-> OpenError(MountInfoPath, openErr)]
            /\ fpc' = "done"
            /\ UNCHANGED fileOpen
       ELSE /\ fileOpen' = TRUE
            /\ fpc' = "l77"
            /\ UNCHANGED fret
    /\ UNCHANGED <<path, file, openErr, scanned, line, scanErr>>

\* file, err := os.Open(path); if err != nil (lines 69-73).
Open ==
    /\ fpc = "l69"
    /\ IF openErr # NoErr
       THEN /\ fret' = [id |-> <<>>, err |-> OpenError(path, openErr)]
            /\ fpc' = "done"
            /\ UNCHANGED fileOpen
       ELSE /\ fileOpen' = TRUE
            /\ fpc' = "l77"
            /\ UNCHANGED fret
    /\ UNCHANGED <<path, file, openErr, scanned, line, scanErr>>

\* for scanner.Scan() { line := scanner.Text() (lines 77-78): the next line
\* is handed out unless reading fails first, the line is too long, or the
\* file has ended.  When reading fails in the middle of a line the scanner
\* hands out the bytes it already holds as a last line and keeps the error
\* for scanner.Err().
Scan ==
    /\ fpc = "l77"
    /\ LET n == scanned + 1
       IN  IF scanErr # NoErr
           THEN /\ fpc' = "l94"
                /\ UNCHANGED <<scanned, line, scanErr>>
           ELSE IF file.fault # NoFault /\ n > file.fault
           THEN IF file.cut > 0
                THEN /\ scanned' = n
                     /\ line' = SubSeq(file.lines[n].text, 1,
                                       Min(file.cut, Len(file.lines[n].text)))
                     /\ scanErr' = "EIO"
                     /\ fpc' = "l85"
                ELSE /\ scanErr' = "EIO"
                     /\ fpc' = "l94"
                     /\ UNCHANGED <<scanned, line>>
           ELSE IF n > Len(file.lines)
           THEN /\ fpc' = "l94"
                /\ UNCHANGED <<scanned, line, scanErr>>
           ELSE IF TooLong(file.lines[n])
           THEN /\ scanErr' = "ErrTooLong"
                /\ fpc' = "l94"
                /\ UNCHANGED <<scanned, line>>
           ELSE /\ scanned' = n
                /\ line' = file.lines[n].text
                /\ fpc' = "l85"
                /\ UNCHANGED scanErr
    /\ UNCHANGED <<path, file, openErr, fileOpen, fret>>

\* Mutant of Match: the identifier of a matching line is not returned.
MatchKeepsScanning ==
    /\ fpc = "l85"
    /\ fpc' = "l77"
    /\ UNCHANGED <<fret, fileOpen>>
    /\ UNCHANGED <<path, file, openErr, scanned, line, scanErr>>

\* Mutant of Match: the whole match is returned instead of the capture group.
MatchReturnsWholeMatch ==
    /\ fpc = "l85"
    /\ LET match == FindStringSubmatch(line)
       IN  IF Len(match) = 2
           THEN /\ fret' = [id |-> match[1], err |-> NoErr]
                /\ fileOpen' = FALSE
                /\ fpc' = "done"
           ELSE /\ fpc' = "l77"
                /\ UNCHANGED <<fret, fileOpen>>
    /\ UNCHANGED <<path, file, openErr, scanned, line, scanErr>>

\* match := podIDRegex.FindStringSubmatch(line); if len(match) == 2 { return
\* match[1], nil } (lines 85-91); the deferred file.Close() runs on return.
Match ==
    /\ fpc = "l85"
    /\ LET match == FindStringSubmatch(line)
       IN  IF Len(match) = 2
           THEN /\ fret' = [id |-> match[2], err |-> NoErr]
                /\ fileOpen' = FALSE
                /\ fpc' = "done"
           ELSE /\ fpc' = "l77"
                /\ UNCHANGED <<fret, fileOpen>>
    /\ UNCHANGED <<path, file, openErr, scanned, line, scanErr>>

\* Mutant of AfterScan: the file is not closed when the scan ends.
AfterScanLeavesOpen ==
    /\ fpc = "l94"
    /\ fret' = IF scanErr # NoErr
               THEN [id |-> <<>>, err |-> ReadError(path, scanErr)]
               ELSE [id |-> <<>>, err |-> ErrPodIDNotFound]
    /\ fpc' = "done"
    /\ UNCHANGED <<path, file, openErr, fileOpen, scanned, line, scanErr>>

\* Mutant of AfterScan: a scan that found nothing reports no error.
AfterScanForgetsNotFound ==
    /\ fpc = "l94"
    /\ fret' = IF scanErr # NoErr
               THEN [id |-> <<>>, err |-> ReadError(path, scanErr)]
               ELSE [id |-> <<>>, err |-> NoErr]
    /\ fileOpen' = FALSE
    /\ fpc' = "done"
    /\ UNCHANGED <<path, file, openErr, scanned, line, scanErr>>

\* if err := scanner.Err(); err != nil { ... } return "", ErrPodIDNotFound
\* (lines 94-99); the deferred file.Close() runs on return.
AfterScan ==
    /\ fpc = "l94"
    /\ fret' = IF scanErr # NoErr
               THEN [id |-> <<>>, err |-> ReadError(path, scanErr)]
               ELSE [id |-> <<>>, err |-> ErrPodIDNotFound]
    /\ fileOpen' = FALSE
    /\ fpc' = "done"
    /\ UNCHANGED <<path, file, openErr, scanned, line, scanErr>>

GetFromFile ==
    \/ Open
    \/ Scan
    \/ Match
    \/ AfterScan

\* ------------------------------------------------- the matcher on its own
\* Lines given to podIDRegex.FindStringSubmatch: a matching path, the same
\* path with one character replaced, removed or added, and such paths put
\* before or after a second matching path.
PathOf(u) == <<"/", "p", "o", "d", "s", "/">> \o u \o <<"/">>

Replacements == {"A", "g", "-", "/", "0"}

Replaced(t, k, c) == [t EXCEPT ![k] = c]
Removed(t, k) == SubSeq(t, 1, k - 1) \o SubSeq(t, k + 1, Len(t))
Added(t, k, c) == SubSeq(t, 1, k - 1) \o <<c>> \o SubSeq(t, k, Len(t))

Variants(t) ==
    {t}
      \cup {Replaced(t, k, c) : k \in 1..Len(t), c \in Replacements}
      \cup {Removed(t, k) : k \in 1..Len(t)}
      \cup {Added(t, k, "0") : k \in 1..Len(t)}

RegexTexts ==
    Variants(PathOf(UUIDB))
      \cup {v \o PathOf(UUIDA) : v \in Variants(PathOf(UUIDB))}
      \cup {PathOf(UUIDA) \o v : v \in Variants(PathOf(UUIDB))}
      \cup {TextNone, TextA, TextB, <<>>}

VARIABLES
    subject,    \* the line handed to FindStringSubmatch
    applied,    \* FindStringSubmatch has returned
    submatch    \* what FindStringSubmatch returned

matchVars == <<subject, applied, submatch>>

MatchIdle ==
    /\ applied = FALSE
    /\ submatch = <<>>

\* match := podIDRegex.FindStringSubmatch(line) (line 85).
ApplyRegex ==
    /\ ~applied
    /\ submatch' = FindStringSubmatch(subject)
    /\ applied' = TRUE
    /\ UNCHANGED subject

\* ========================================================= getContainerID
MaxCalls == 2
MaxMountLines == 2

\* main.go:28.
ErrContainerIDNotFound == "container ID not found"

\* ------------------------------------------------------- strings helpers
\* Characters strings.TrimSpace removes.
Space == {" ", "\t", "\n", "\r"}

RECURSIVE TrimLeft(_)
TrimLeft(t) == IF t # <<>> /\ Head(t) \in Space THEN TrimLeft(Tail(t)) ELSE t

RECURSIVE TrimRight(_)
TrimRight(t) ==
    IF t # <<>> /\ t[Len(t)] \in Space THEN TrimRight(SubSeq(t, 1, Len(t) - 1)) ELSE t

\* strings.TrimSpace (line 103).
TrimSpace(t) == TrimRight(TrimLeft(t))

\* strings.Split(t, "/") (line 104): the parts between the slashes, empty
\* parts included; a text without a slash is its own single part.
RECURSIVE Split(_)
Split(t) ==
    LET slashes == {i \in 1..Len(t) : t[i] = "/"}
    IN  IF slashes = {} THEN <<t>>
        ELSE LET i == CHOOSE m \in slashes : \A n \in slashes : m <= n
             IN  <<SubSeq(t, 1, i - 1)>> \o Split(SubSeq(t, i + 1, Len(t)))

\* replacer.Replace (lines 26 and 105): every "\n" is removed.
IsNotNewline(c) == c # "\n"
Replace(t) == SelectSeq(t, IsNotNewline)

\* Contents of /proc/self/cpuset.
Chars(n, c) == [k \in 1..n |-> c]
Root == <<"/">>
Docker == <<"/", "d", "o", "c", "k", "e", "r", "/">>
Abc == <<"a", "b", "c">>

CpusetContents ==
    {Root,
     Root \o <<"\n">>,
     <<" ">> \o Root \o <<"\n">>,
     Docker \o Abc,
     Docker \o Abc \o <<"\n">>,
     Docker \o Abc \o <<"/">>,
     Docker \o Abc \o <<"/", "\n">>,
     Docker \o <<"a", "\n", "b">>,
     Abc,
     <<>>,
     <<" ", "\n">>,
     <<"/", "/">>}

\* --------------------------------------- containerid (not among the sources)
\* The error of containerid for a mount table without a container ID.
CidNotFound == "containerid: container ID not found"

\* The container pattern: 64 lowercase hex characters in a row.
ContainerIDLen == 64

ContainerIDAt(text, i) ==
    /\ i + ContainerIDLen - 1 <= Len(text)
    /\ \A k \in 0..(ContainerIDLen - 1) : text[i + k] \in HexLower

\* The leftmost run of the line, or nothing.
FindContainerID(text) ==
    LET starts == {i \in 1..Len(text) : ContainerIDAt(text, i)}
    IN  IF starts = {} THEN <<>>
        ELSE LET i == CHOOSE m \in starts : \A n \in starts : m <= n
             IN  SubSeq(text, i, i + ContainerIDLen - 1)

RunA == Chars(64, "a")
RunB == Chars(64, "b")

MountLines ==
    {TextNone,
     <<"/", "c", "t", "r", "/">> \o RunA \o <<"/", "h", "o", "s", "t", "s">>,
     <<"/">> \o RunB,
     <<"/">> \o Chars(63, "c") \o <<"/">> \o Chars(5, "c"),
     Chars(65, "d")}

\* A mount table: its lines and the number of lines after which reading
\* fails (NoFault when it never does).
MountTables ==
    [lines : SeqsUpTo(MountLines, MaxMountLines),
     fault : {NoFault} \cup (0..MaxMountLines)]

\* containerid.GetFromFile: the identifier of the first line that holds one;
\* an error when the table cannot be opened or read; CidNotFound otherwise.
ScanMountTable(t, oerr) ==
    LET last == IF t.fault # NoFault /\ t.fault < Len(t.lines) THEN t.fault ELSE Len(t.lines)
        hits == {i \in 1..last : FindContainerID(t.lines[i]) # <<>>}
    IN  IF oerr # NoErr
        THEN [id |-> <<>>, err |-> OpenError(MountInfoPath, oerr)]
        ELSE IF hits # {}
        THEN [id |-> FindContainerID(t.lines[CHOOSE m \in hits : \A n \in hits : m <= n]),
              err |-> NoErr]
        ELSE IF t.fault # NoFault /\ t.fault <= Len(t.lines)
        THEN [id |-> <<>>, err |-> ReadError(MountInfoPath, "EIO")]
        ELSE [id |-> <<>>, err |-> CidNotFound]

\* What a provider put in place of the default one may return.
StubOutcomes ==
    {[id |-> RunA, err |-> NoErr],
     [id |-> <<>>, err |-> NoErr],
     [id |-> <<>>, err |-> "temporary failure"]}

VARIABLES
    cpuset,       \* content of /proc/self/cpuset read by the call in progress
    readErr,      \* error of os.ReadFile, NoErr when it succeeds
    gpc,          \* the line of getContainerID about to be executed
    gid,          \* local id of getContainerID
    gerr,         \* local err of getContainerID
    mountTable,   \* content of /proc/self/mountinfo
    mountOpenErr, \* error of opening the mount table, NoErr when it opens
    getFunc,      \* the provider of containerid: "file" (default) or "stub"
    cidCachedID,  \* cachedID of containerid
    cidHasID,     \* hasID of containerid
    cidGets,      \* history: number of calls of containerid.Get
    cidOpens,     \* history: number of times the mount table was opened
    started,      \* number of getContainerID calls started
    before,       \* history: cidGets, cidOpens and the cache when the call started
    got,          \* history: what containerid.Get returned to the call in progress
    clog          \* history: the completed getContainerID calls

cidVars == <<cpuset, readErr, gpc, gid, gerr, mountTable, mountOpenErr, getFunc,
             cidCachedID, cidHasID, cidGets, cidOpens, started, before, got, clog>>

CidCache == <<cidCachedID, cidHasID>>

CidIdle ==
    /\ cpuset = <<>>
    /\ readErr = NoErr
    /\ gpc = "idle"
    /\ gid = <<>>
    /\ gerr = NoErr
    /\ cidCachedID = <<>>
    /\ cidHasID = FALSE
    /\ cidGets = 0
    /\ cidOpens = 0
    /\ started = 0
    /\ before = <<0, 0, <<<<>>, FALSE>>>>
    /\ got = <<>>
    /\ clog = <<>>

\* The record a returning getContainerID leaves in the log.
Done(rid, rerr) ==
    [cpuset |-> cpuset, readErr |-> readErr, id |-> rid, err |-> rerr, got |-> got,
     gets |-> cidGets - before[1], opens |-> cidOpens - before[2],
     cacheBefore |-> before[3], cacheAfter |-> CidCache]

\* b, err := os.ReadFile("/proc/self/cpuset") (line 95).
ReadCpuset ==
    /\ gpc = "idle"
    /\ started < MaxCalls
    /\ started' = started + 1
    /\ \E e \in {NoErr, "EACCES"} :
          /\ readErr' = e
          /\ cpuset' \in IF e = NoErr THEN CpusetContents ELSE {<<>>}
    /\ gid' = <<>>
    /\ gerr' = NoErr
    /\ before' = <<cidGets, cidOpens, CidCache>>
    /\ got' = <<>>
    /\ gpc' = "l96"
    /\ UNCHANGED <<mountTable, mountOpenErr, getFunc, cidCachedID, cidHasID,
                   cidGets, cidOpens, clog>>

\* Mutant of CheckRead: an unreadable cpuset falls back to containerid.
CheckReadFallsBack ==
    /\ gpc = "l96"
    /\ gpc' = IF readErr # NoErr THEN "l109" ELSE "l103"
    /\ UNCHANGED <<cpuset, readErr, gid, gerr, mountTable, mountOpenErr, getFunc,
                   cidCachedID, cidHasID, cidGets, cidOpens, started, before, got, clog>>

\* if err != nil { return "", err } (lines 96-98).
CheckRead ==
    /\ gpc = "l96"
    /\ IF readErr # NoErr
       THEN /\ clog' = Append(clog, Done(<<>>, readErr))
            /\ gpc' = "idle"
       ELSE /\ gpc' = "l103"
            /\ UNCHANGED clog
    /\ UNCHANGED <<cpuset, readErr, gid, gerr, mountTable, mountOpenErr, getFunc,
                   cidCachedID, cidHasID, cidGets, cidOpens, started, before, got>>

\* Mutant of CgroupV1: an empty last segment falls through to containerid.
CgroupV1FallsThroughOnEmpty ==
    /\ gpc = "l103"
    /\ LET cpusetSplit == Split(cpuset)
       IN  IF TrimSpace(cpuset) # Root /\ Replace(cpusetSplit[Len(cpusetSplit)]) # <<>>
           THEN /\ clog' = Append(clog, Done(Replace(cpusetSplit[Len(cpusetSplit)]), NoErr))
                /\ gpc' = "idle"
           ELSE /\ gpc' = "l109"
                /\ UNCHANGED clog
    /\ UNCHANGED <<cpuset, readErr, gid, gerr, mountTable, mountOpenErr, getFunc,
                   cidCachedID, cidHasID, cidGets, cidOpens, started, before, got>>

\* Mutant of CgroupV1: the content is compared with "/" without trimming.
CgroupV1Untrimmed ==
    /\ gpc = "l103"
    /\ IF cpuset # Root
       THEN LET cpusetSplit == Split(cpuset)
            IN  /\ clog' = Append(clog, Done(Replace(cpusetSplit[Len(cpusetSplit)]), NoErr))
                /\ gpc' = "idle"
       ELSE /\ gpc' = "l109"
            /\ UNCHANGED clog
    /\ UNCHANGED <<cpuset, readErr, gid, gerr, mountTable, mountOpenErr, getFunc,
                   cidCachedID, cidHasID, cidGets, cidOpens, started, before, got>>

\* if strings.TrimSpace(cpuset) != "/" { ... return ... } (lines 103-106).
CgroupV1 ==
    /\ gpc = "l103"
    /\ IF TrimSpace(cpuset) # Root
       THEN LET cpusetSplit == Split(cpuset)
            IN  /\ clog' = Append(clog, Done(Replace(cpusetSplit[Len(cpusetSplit)]), NoErr))
                /\ gpc' = "idle"
       ELSE /\ gpc' = "l109"
            /\ UNCHANGED clog
    /\ UNCHANGED <<cpuset, readErr, gid, gerr, mountTable, mountOpenErr, getFunc,
                   cidCachedID, cidHasID, cidGets, cidOpens, started, before, got>>

\* containerid.Get: the cached identifier when there is one; otherwise the
\* provider's result, stored when the provider succeeded.
ContaineridGet ==
    /\ cidGets' = cidGets + 1
    /\ IF cidHasID
       THEN /\ gid' = cidCachedID
            /\ gerr' = NoErr
            /\ UNCHANGED <<cidCachedID, cidHasID, cidOpens>>
       ELSE /\ cidOpens' = IF getFunc = "file" THEN cidOpens + 1 ELSE cidOpens
            /\ \E out \in IF getFunc = "file"
                          THEN {ScanMountTable(mountTable, mountOpenErr)}
                          ELSE StubOutcomes :
                 IF out.err = NoErr
                 THEN /\ cidCachedID' = out.id
                      /\ cidHasID' = TRUE
                      /\ gid' = out.id
                      /\ gerr' = NoErr
                 ELSE /\ gid' = <<>>
                      /\ gerr' = out.err
                      /\ UNCHANGED <<cidCachedID, cidHasID>>
    /\ got' = <<[id |-> gid', err |-> gerr']>>

\* A call of containerid.Get from outside getContainerID, as the tests of
\* containerid make it.
CallContaineridGet ==
    /\ gpc = "idle"
    /\ cidGets < MaxCalls
    /\ ContaineridGet
    /\ UNCHANGED <<cpuset, readErr, gpc, mountTable, mountOpenErr, getFunc, started,
                   before, clog>>

\* id, err := containerid.Get() (line 109).
CgroupV2 ==
    /\ gpc = "l109"
    /\ ContaineridGet
    /\ gpc' = "l111"
    /\ UNCHANGED <<cpuset, readErr, mountTable, mountOpenErr, getFunc, started,
                   before, clog>>

\* Mutant of ReturnID: the empty identifier is not checked for.
ReturnIDUnchecked ==
    /\ gpc = "l111"
    /\ clog' = Append(clog, Done(gid, NoErr))
    /\ gpc' = "idle"
    /\ UNCHANGED <<cpuset, readErr, gid, gerr, mountTable, mountOpenErr, getFunc,
                   cidCachedID, cidHasID, cidGets, cidOpens, started, before, got>>

\* if id == "" { return "", ErrContainerIDNotFound }; return id, nil
\* (lines 111-115).
ReturnID ==
    /\ gpc = "l111"
    /\ clog' = Append(clog, IF gid = <<>>
                            THEN Done(<<>>, ErrContainerIDNotFound)
                            ELSE Done(gid, NoErr))
    /\ gpc' = "idle"
    /\ UNCHANGED <<cpuset, readErr, gid, gerr, mountTable, mountOpenErr, getFunc,
                   cidCachedID, cidHasID, cidGets, cidOpens, started, before, got>>

getContainerID ==
    \/ ReadCpuset
    \/ CheckRead
    \/ CgroupV1
    \/ CgroupV2
    \/ ReturnID

\* =========================================================== HTTP handlers
MaxRequests == 2

\* net/http status codes used by main.go (lines 164, 200, 294, 292).
StatusOK == 200
StatusBadRequest == 400
StatusNotFound == 404
StatusInternalServerError == 500
Statuses == {StatusOK, StatusBadRequest, StatusNotFound, StatusInternalServerError}

\* main.go:134.
contentTypeJSON == "application/json"
\* The content type http.Error sets.
contentTypeText == "text/plain; charset=utf-8"

\* ---------------------------------------------------------------- errors
\* An error value is the chain of errors reached by Unwrap, outermost
\* first; nil is the empty chain.
Nil == <<>>

\* errors.Is(err, target) for a sentinel target (lines 293 and 307).
ErrorsIs(e, target) == \E i \in 1..Len(e) : e[i] = target

\* err.Error(): the texts of the chain joined by ": ", as fmt.Errorf with
\* "...: %w" composes them.
RECURSIVE ErrorText(_)
ErrorText(e) ==
    IF Len(e) <= 1 THEN e ELSE <<Head(e), ":", " ">> \o ErrorText(Tail(e))

\* What podid.Get hands to the /pod_id handler: an identifier and nil, or
\* no identifier and an error (podid.go:49, 55, 63).
PodResults ==
    {[id |-> UUIDA, err |-> Nil],
     [id |-> UUIDB, err |-> Nil],
     [id |-> <<>>, err |-> Nil],
     [id |-> <<>>, err |-> <<ErrPodIDNotFound>>],
     [id |-> <<>>, err |-> <<"lookup failed", ErrPodIDNotFound>>],
     [id |-> <<>>, err |-> <<"failed to open /proc/self/mountinfo", "ENOENT">>],
     [id |-> <<>>, err |-> <<"error reading /proc/self/mountinfo", "EIO">>]}

\* What getContainerID hands to the /container_id handler (main.go:97, 105,
\* 112, 115).
ContainerResults ==
    {[id |-> RunA, err |-> Nil],
     [id |-> Abc, err |-> Nil],
     [id |-> <<"a", "<", "\"", "b">>, err |-> Nil],
     [id |-> <<>>, err |-> Nil],
     [id |-> <<>>, err |-> <<ErrContainerIDNotFound>>],
     [id |-> <<>>, err |-> <<"open /proc/self/cpuset", "EACCES">>]}

\* ---------------------------------------------------------- encoding/json
\* The values handed to json.Marshal: a string, a channel (which cannot be
\* marshalled), responseSuccess{Data} and responseError{Errors{Message}}.
String(t) == [kind |-> "string", val |-> t]
Chan == [kind |-> "chan"]
responseSuccess(d) == [kind |-> "responseSuccess", Data |-> d]
responseError(m) == [kind |-> "responseError", Message |-> m]

\* The JSON escape of one character of a string.
EscapeChar(c) ==
    CASE c = "\"" -> "\\\""
      [] c = "\\" -> "\\\\"
      [] c = "\n" -> "\\n"
      [] c = "<"  -> "\\u003c"
      [] c = ">"  -> "\\u003e"
      [] c = "&"  -> "\\u0026"
      [] OTHER    -> c

\* A string as a JSON string literal.
Quote(t) == <<"\"">> \o [k \in 1..Len(t) |-> EscapeChar(t[k])] \o <<"\"">>

\* json.Marshal: the JSON text, or the error for a value json cannot encode.
Marshal(v) ==
    LET enc(x) == IF x.kind = "string"
                  THEN [err |-> Nil, b |-> Quote(x.val)]
                  ELSE [err |-> <<"json: unsupported type: chan int">>, b |-> <<>>]
    IN  CASE v.kind = "responseSuccess" ->
                IF enc(v.Data).err # Nil THEN enc(v.Data)
                ELSE [err |-> Nil, b |-> <<"{\"data\":">> \o enc(v.Data).b \o <<"}">>]
          [] v.kind = "responseError" ->
                [err |-> Nil,
                 b |-> <<"{\"errors\":{\"message\":">> \o Quote(v.Message) \o <<"}}">>]
          [] OTHER -> enc(v)

\* ------------------------------------------------------ response writers
\* http.Error: the status, a plain-text content type, the text and a newline.
httpError(text, code) ==
    [code |-> code, contentType |-> contentTypeText, body |-> text \o <<"\n">>]

\* Mutant of writeJSONResponse: the caller's status is written even when
\* marshalling fails.
writeJSONResponseKeepsStatus(data, statusCode) ==
    LET m == Marshal(data)
    IN  IF m.err # Nil
        THEN httpError(ErrorText(m.err), statusCode)
        ELSE [code |-> statusCode, contentType |-> contentTypeJSON, body |-> m.b]

\* writeJSONResponse (lines 149-159): what the response writer holds after
\* the call.
writeJSONResponse(data, statusCode) ==
    LET m == Marshal(data)
    IN  IF m.err # Nil
        THEN httpError(ErrorText(m.err), StatusInternalServerError)
        ELSE [code |-> statusCode, contentType |-> contentTypeJSON, body |-> m.b]

\* writeJSONSuccess (lines 163-165).
writeJSONSuccess(data) == writeJSONResponse(responseSuccess(data), StatusOK)

\* writeJSONError (lines 169-171).
writeJSONError(message, statusCode) ==
    writeJSONResponse(responseError(message), statusCode)

\* Values and messages the writers are called with.
JSONValues == {String(<<"h", "e", "l", "l", "o">>), String(<<>>), Chan,
               responseSuccess(String(Abc)), responseSuccess(Chan),
               responseError(<<"n", "o">>)}
Messages == {<<"resource not found">>, <<"a", "\"", "b">>}

VARIABLES
    requests,     \* number of requests and direct calls served
    responses     \* history: what was asked and what the response writer holds

hdlVars == <<requests, responses>>

HandlerIdle ==
    /\ requests = 0
    /\ responses = <<>>

\* The record a served request leaves in the log.
Served(op, res, data, status, w) ==
    [op |-> op, id |-> res.id, err |-> res.err, data |-> data, status |-> status, w |-> w]

NoResult == [id |-> <<>>, err |-> Nil]

\* Mutant of PodIDHandler: every error is answered as a server error.
PodIDHandlerAlways500 ==
    /\ requests < MaxRequests
    /\ requests' = requests + 1
    /\ \E res \in PodResults :
          responses' = Append(responses,
              Served("/pod_id", res, Chan, 0,
                     IF res.err # Nil
                     THEN writeJSONError(ErrorText(res.err), StatusInternalServerError)
                     ELSE writeJSONSuccess(String(res.id))))

\* The /pod_id handler (lines 289-301).
PodIDHandler ==
    /\ requests < MaxRequests
    /\ requests' = requests + 1
    /\ \E res \in PodResults :
          responses' = Append(responses,
              Served("/pod_id", res, Chan, 0,
                     IF res.err # Nil
                     THEN writeJSONError(ErrorText(res.err),
                                         IF ErrorsIs(res.err, ErrPodIDNotFound)
                                         THEN StatusNotFound
                                         ELSE StatusInternalServerError)
                     ELSE writeJSONSuccess(String(res.id))))

\* The /container_id handler (lines 303-315).
ContainerIDHandler ==
    /\ requests < MaxRequests
    /\ requests' = requests + 1
    /\ \E res \in ContainerResults :
          responses' = Append(responses,
              Served("/container_id", res, Chan, 0,
                     IF res.err # Nil
                     THEN writeJSONError(ErrorText(res.err),
                                         IF ErrorsIs(res.err, ErrContainerIDNotFound)
                                         THEN StatusNotFound
                                         ELSE StatusInternalServerError)
                     ELSE writeJSONSuccess(String(res.id))))

\* A direct call of writeJSONResponse.
CallWriteJSONResponse ==
    /\ requests < MaxRequests
    /\ requests' = requests + 1
    /\ \E data \in JSONValues, status \in Statuses :
          responses' = Append(responses,
              Served("writeJSONResponse", NoResult, data, status,
                     writeJSONResponse(data, status)))

\* A direct call of writeJSONSuccess.
CallWriteJSONSuccess ==
    /\ requests < MaxRequests
    /\ requests' = requests + 1
    /\ \E data \in {v \in JSONValues : v.kind \in {"string", "chan"}} :
          responses' = Append(responses,
              Served("writeJSONSuccess", NoResult, data, 0, writeJSONSuccess(data)))

\* A direct call of writeJSONError.
CallWriteJSONError ==
    /\ requests < MaxRequests
    /\ requests' = requests + 1
    /\ \E message \in Messages, status \in Statuses :
          responses' = Append(responses,
              Served("writeJSONError", NoResult, String(message), status,
                     writeJSONError(message, status)))

Serve ==
    \/ PodIDHandler
    \/ ContainerIDHandler
    \/ CallWriteJSONResponse
    \/ CallWriteJSONSuccess
    \/ CallWriteJSONError

\* ================================================================ /counter
MaxCounterRequests == 3

\* strconv.FormatUint(n, 10) (line 278): the decimal digits of n.
Digits == <<"0", "1", "2", "3", "4", "5", "6", "7", "8", "9">>

RECURSIVE FormatUint(_)
FormatUint(n) ==
    IF n < 10 THEN <<Digits[n + 1]>>
    ELSE FormatUint(n \div 10) \o <<Digits[(n % 10) + 1]>>

VARIABLES
    counter,      \* var counter uint64 (line 225)
    lpc,          \* the line the logging goroutine is about to execute
    currCount,    \* local currCount of the logging goroutine
    counterReqs,  \* number of /counter requests served
    counterResp,  \* history: the responses to the /counter requests, in order
    logged,       \* history: the counts written by CounterLogger
    casLog        \* history: the compare-and-swaps that had a count at stake

cntVars == <<counter, lpc, currCount, counterReqs, counterResp, logged, casLog>>

CounterIdle ==
    /\ counter = 0
    /\ lpc = "l319"
    /\ currCount = 0
    /\ counterReqs = 0
    /\ counterResp = <<>>
    /\ logged = <<>>
    /\ casLog = <<>>

\* The /counter handler (lines 276-279): atomic.AddUint64 and the response.
CounterHandler ==
    /\ counterReqs < MaxCounterRequests
    /\ counterReqs' = counterReqs + 1
    /\ counter' = counter + 1
    /\ counterResp' = Append(counterResp, writeJSONSuccess(String(FormatUint(counter + 1))))
    /\ UNCHANGED <<lpc, currCount, logged, casLog>>

\* currCount := atomic.LoadUint64(&counter) (line 319).
LoggerLoad ==
    /\ lpc = "l319"
    /\ currCount' = counter
    /\ lpc' = "l320"
    /\ UNCHANGED <<counter, counterReqs, counterResp, logged, casLog>>

\* if currCount != 0 { logger.Info("CounterLogger", ...) } (lines 320-325).
LoggerLog ==
    /\ lpc = "l320"
    /\ logged' = IF currCount # 0 THEN Append(logged, currCount) ELSE logged
    /\ lpc' = "l327"
    /\ UNCHANGED <<counter, currCount, counterReqs, counterResp, casLog>>

\* Mutant of LoggerCAS: the counter is set to 0 whatever it holds.
LoggerStoreZero ==
    /\ lpc = "l327"
    /\ counter' = 0
    /\ casLog' = IF currCount # 0 \/ counter # currCount
                 THEN Append(casLog, [old |-> currCount, found |-> counter,
                                      swapped |-> TRUE, after |-> counter'])
                 ELSE casLog
    /\ lpc' = "l328"
    /\ UNCHANGED <<currCount, counterReqs, counterResp, logged>>

\* atomic.CompareAndSwapUint64(&counter, currCount, 0) (line 327).
LoggerCAS ==
    /\ lpc = "l327"
    /\ counter' = IF counter = currCount THEN 0 ELSE counter
    /\ casLog' = IF currCount # 0 \/ counter # currCount
                 THEN Append(casLog, [old |-> currCount, found |-> counter,
                                      swapped |-> counter = currCount,
                                      after |-> counter'])
                 ELSE casLog
    /\ lpc' = "l328"
    /\ UNCHANGED <<currCount, counterReqs, counterResp, logged>>

\* <-time.After(1 * time.Second) (line 328).
LoggerSleep ==
    /\ lpc = "l328"
    /\ lpc' = "l319"
    /\ UNCHANGED <<counter, currCount, counterReqs, counterResp, logged, casLog>>

CounterLogger == LoggerLoad \/ LoggerLog \/ LoggerCAS \/ LoggerSleep

\* ============================================================= instance ID
\* A timestamp is the int64 of time.Now().UnixMilli() as its eight bytes,
\* most significant first; a byte is a number in 0..255.
NibbleBase == 16

\* byte(timestamp >> n) for n a multiple of 8 (lines 49-54): the byte of the
\* timestamp that lies n bits above its lowest one.
ByteShifted(timestamp, n) == timestamp[8 - (n \div 8)]

\* hex.EncodeToString (lines 69-73): two lowercase hex digits per byte.
HexDigits == <<"0", "1", "2", "3", "4", "5", "6", "7", "8", "9",
               "a", "b", "c", "d", "e", "f">>

RECURSIVE EncodeToString(_)
EncodeToString(bs) ==
    IF bs = <<>> THEN <<>>
    ELSE <<HexDigits[(Head(bs) \div NibbleBase) + 1], HexDigits[(Head(bs) % NibbleBase) + 1]>>
           \o EncodeToString(Tail(bs))

\* Mutant of generateRandomID: the version bits are left as drawn.
generateRandomIDNoVersion(timestamp, random, rerr) ==
    IF rerr # Nil
    THEN [id |-> <<>>, err |-> <<"failed to generate random ID">> \o rerr]
    ELSE LET b == <<ByteShifted(timestamp, 40), ByteShifted(timestamp, 32),
                    ByteShifted(timestamp, 24), ByteShifted(timestamp, 16),
                    ByteShifted(timestamp, 8), ByteShifted(timestamp, 0)>>
                  \o SubSeq(random, 1, 2)
                  \o <<(random[3] % 64) + 128>>
                  \o SubSeq(random, 4, 10)
         IN  [id |-> EncodeToString(SubSeq(b, 1, 4)) \o <<"-">>
                     \o EncodeToString(SubSeq(b, 5, 6)) \o <<"-">>
                     \o EncodeToString(SubSeq(b, 7, 8)) \o <<"-">>
                     \o EncodeToString(SubSeq(b, 9, 10)) \o <<"-">>
                     \o EncodeToString(SubSeq(b, 11, 16)),
              err |-> Nil]

\* generateRandomID (lines 42-75) for the timestamp time.Now gives and the
\* ten bytes, or the error, rand.Read gives.  b[6] = (b[6] & 0x0f) | 0x70
\* and b[8] = (b[8] & 0x3f) | 0x80; b[0] of the code is b[1] here.
generateRandomID(timestamp, random, rerr) ==
    IF rerr # Nil
    THEN [id |-> <<>>, err |-> <<"failed to generate random ID">> \o rerr]
    ELSE LET b == <<ByteShifted(timestamp, 40), ByteShifted(timestamp, 32),
                    ByteShifted(timestamp, 24), ByteShifted(timestamp, 16),
                    ByteShifted(timestamp, 8), ByteShifted(timestamp, 0)>>
                  \o <<(random[1] % 16) + 112>>
                  \o <<random[2]>>
                  \o <<(random[3] % 64) + 128>>
                  \o SubSeq(random, 4, 10)
         IN  [id |-> EncodeToString(SubSeq(b, 1, 4)) \o <<"-">>
                     \o EncodeToString(SubSeq(b, 5, 6)) \o <<"-">>
                     \o EncodeToString(SubSeq(b, 7, 8)) \o <<"-">>
                     \o EncodeToString(SubSeq(b, 9, 10)) \o <<"-">>
                     \o EncodeToString(SubSeq(b, 11, 16)),
              err |-> Nil]

\* Times the clock can show: the epoch, 2026-11-06 (1793998500864 ms,
\* 0x01A1B2A4B400) and the last millisecond that fits 48 bits.
Timestamps ==
    {<<0, 0, 0, 0, 0, 0, 0, 0>>,
     <<0, 0, 1, 161, 178, 164, 180, 0>>,
     <<0, 0, 255, 255, 255, 255, 255, 255>>}

\* Bytes rand.Read can give: every combination of the listed values for
\* b[6] and b[8] with two fillings of the other eight bytes.
RandomBytes ==
    {<<b6, f>> \o <<b8>> \o [k \in 1..7 |-> f] :
        b6 \in {0, 138, 255}, b8 \in {0, 127, 192, 255}, f \in {0, 171}}

\* Values of the INSTANCE_ID environment variable; unset reads as empty.
EnvValues == {<<>>, <<"t", "e", "s", "t", "-", "1">>, <<" ">>}

VARIABLES
    env,           \* os.Getenv("INSTANCE_ID")
    now,           \* what time.Now().UnixMilli() returns
    random,        \* the bytes rand.Read fills in
    randErr,       \* the error of rand.Read, Nil when it succeeds
    instanceID,    \* var instanceID string (line 33)
    ipc,           \* the line of initInstanceID about to be executed
    iid,           \* local id of initInstanceID
    ierr,          \* local err of initInstanceID
    initRet,       \* what initInstanceID returned
    generated,     \* history: number of calls of generateRandomID
    instanceBefore \* history: instanceID when initInstanceID was called

idVars == <<env, now, random, randErr, instanceID, ipc, iid, ierr, initRet,
            generated, instanceBefore>>

NotReturned == <<"none">>

InstanceIdle ==
    /\ ipc = "l80"
    /\ iid = <<>>
    /\ ierr = Nil
    /\ initRet = NotReturned
    /\ generated = 0
    /\ instanceBefore = instanceID

\* Mutant of InitFromEnv: the environment variable is not looked at.
InitFromEnvIgnored ==
    /\ ipc = "l80"
    /\ ipc' = "l86"
    /\ UNCHANGED <<env, now, random, randErr, instanceID, iid, ierr, initRet,
                   generated, instanceBefore>>

\* if id := os.Getenv("INSTANCE_ID"); id != "" { instanceID = id; return nil }
\* (lines 80-83).
InitFromEnv ==
    /\ ipc = "l80"
    /\ IF env # <<>>
       THEN /\ instanceID' = env
            /\ initRet' = Nil
            /\ ipc' = "done"
       ELSE /\ ipc' = "l86"
            /\ UNCHANGED <<instanceID, initRet>>
    /\ UNCHANGED <<env, now, random, randErr, iid, ierr, generated, instanceBefore>>

\* id, err := generateRandomID() (line 86).
InitGenerate ==
    /\ ipc = "l86"
    /\ LET r == generateRandomID(now, random, randErr)
       IN  /\ iid' = r.id
           /\ ierr' = r.err
    /\ generated' = generated + 1
    /\ ipc' = "l87"
    /\ UNCHANGED <<env, now, random, randErr, instanceID, initRet, instanceBefore>>

\* if err != nil { return err } (lines 87-89).
InitCheck ==
    /\ ipc = "l87"
    /\ IF ierr # Nil
       THEN /\ initRet' = ierr
            /\ ipc' = "done"
       ELSE /\ ipc' = "l90"
            /\ UNCHANGED initRet
    /\ UNCHANGED <<env, now, random, randErr, instanceID, iid, ierr, generated,
                   instanceBefore>>

\* instanceID = id; return nil (lines 90-91).
InitAssign ==
    /\ ipc = "l90"
    /\ instanceID' = iid
    /\ initRet' = Nil
    /\ ipc' = "done"
    /\ UNCHANGED <<env, now, random, randErr, iid, ierr, generated, instanceBefore>>

initInstanceID == InitFromEnv \/ InitGenerate \/ InitCheck \/ InitAssign

\* ================================================ Get with the default provider
\* getPodIDFunc = getPodIDFromMountInfo (podid.go:37, 105-107): the provider
\* is GetFromFile(MountInfoPath).  The scan of one goroutine touches nothing
\* another goroutine sees, so the scans are taken one at a time.

\* Contents of /proc/self/mountinfo.
PodFiles ==
    {[lines |-> <<>>, fault |-> NoFault, cut |-> 0],
     [lines |-> <<[text |-> TextNone, pad |-> 0]>>, fault |-> NoFault, cut |-> 0],
     [lines |-> <<[text |-> TextA, pad |-> 0]>>, fault |-> NoFault, cut |-> 0],
     [lines |-> <<[text |-> TextNone, pad |-> 0], [text |-> TextB, pad |-> 0]>>,
      fault |-> NoFault, cut |-> 0],
     [lines |-> <<[text |-> TextB, pad |-> 0]>>, fault |-> 0, cut |-> 51],
     [lines |-> <<[text |-> TextA, pad |-> 0]>>, fault |-> 0, cut |-> 20],
     [lines |-> <<PadTo(TextB, MaxTokenSize)>>, fault |-> NoFault, cut |-> 0]}

\* id, err := getPodIDFunc() (line 53): the goroutine enters GetFromFile.
EnterProvider(p) ==
    /\ pc[p] = "l53"
    /\ \A q \in Procs : pc[q] # "scan"
    /\ pc' = [pc EXCEPT ![p] = "scan"]
    /\ fpc' = "l69"
    /\ fileOpen' = FALSE
    /\ scanned' = 0
    /\ line' = <<>>
    /\ scanErr' = NoErr
    /\ fret' = NoRet
    /\ UNCHANGED <<path, file, openErr>>
    /\ UNCHANGED <<cachedID, hasID, mu, id, err, nCallers, gets, calls, provided,
                   commits, flips, cur, dirty, log>>

\* GetFromFile has returned; if err != nil (lines 53-54).
LeaveProvider(p) ==
    /\ pc[p] = "scan"
    /\ fpc = "done"
    /\ id' = [id EXCEPT ![p] = fret.id]
    /\ err' = [err EXCEPT ![p] = fret.err]
    /\ cur' = [cur EXCEPT ![p].prov = <<fret>>, ![p].invoked = @ + 1]
    /\ provided' = IF fret.err = NoErr THEN provided \cup {fret.id} ELSE provided
    /\ pc' = [pc EXCEPT ![p] = IF fret.err # NoErr THEN "l55" ELSE "l58"]
    /\ calls' = calls + 1
    /\ UNCHANGED <<cachedID, hasID, mu, nCallers, gets, commits, flips, dirty, log>>
    /\ UNCHANGED scanVars

\* A step of the scan of the goroutine that is inside the provider.
ProviderStep ==
    /\ \E p \in Procs : pc[p] = "scan"
    /\ GetFromFile
    /\ UNCHANGED getVars

\* A step of Get outside the provider.
GetStep(p) ==
    /\ \/ Call(p)
       \/ RLock(p)
       \/ TestHasID(p)
       \/ ReadCachedID(p)
       \/ ReturnHit(p)
       \/ RUnlockMiss(p)
       \/ ReturnErr(p)
       \/ Lock(p)
       \/ WriteCachedID(p)
       \/ WriteHasID(p)
       \/ ReturnStored(p)
    /\ UNCHANGED scanVars

GetDefault ==
    \/ \E p \in Procs : GetStep(p)
    \/ \E p \in Procs : EnterProvider(p)
    \/ \E p \in Procs : LeaveProvider(p)
    \/ ProviderStep

\* ========================================================== specifications
vars == <<getVars, scanVars, matchVars, cidVars, hdlVars, cntVars, idVars>>

\* The instance ID when initInstanceID is not under study.
InstanceUnused ==
    /\ env = <<>>
    /\ now = <<0, 0, 0, 0, 0, 0, 0, 0>>
    /\ random = [k \in 1..10 |-> 0]
    /\ randErr = Nil
    /\ instanceID = <<>>
    /\ InstanceIdle

\* The mount table and the provider of containerid when getContainerID is
\* not under study.
CidUnused ==
    /\ mountTable = [lines |-> <<>>, fault |-> NoFault]
    /\ mountOpenErr = NoErr
    /\ getFunc = "file"
    /\ CidIdle

\* Goroutines calling Get, with a provider whose outcome is unconstrained.
Init ==
    /\ GetInit
    /\ nCallers \in 1..NumProcs
    /\ path = MountInfoPath
    /\ file = [lines |-> <<>>, fault |-> NoFault, cut |-> 0]
    /\ openErr = NoErr
    /\ ScanIdle
    /\ subject = <<>>
    /\ MatchIdle
    /\ CidUnused
    /\ HandlerIdle
    /\ CounterIdle
    /\ InstanceUnused

Next == \E p \in Procs : Get(p) /\ UNCHANGED <<scanVars, matchVars, cidVars, hdlVars, cntVars, idVars>>

Spec == Init /\ [][Next]_vars

\* A step of a goroutine that is inside Get.
Proceed(p) ==
    /\ pc[p] # "idle"
    /\ Get(p)
    /\ UNCHANGED <<scanVars, matchVars, cidVars, hdlVars, cntVars, idVars>>

\* The goroutines of Spec under a scheduler that lets every goroutine that
\* can take a step take one eventually; the provider terminates.
LiveSpec == Spec /\ \A p \in Procs : WF_vars(Proceed(p))

\* One call of GetFromFile on every file and every outcome of os.Open.
ScanInit ==
    /\ GetInit
    /\ nCallers = 1
    /\ path \in Paths
    /\ file \in Files
    /\ openErr \in {NoErr, "ENOENT"}
    /\ ScanIdle
    /\ subject = <<>>
    /\ MatchIdle
    /\ CidUnused
    /\ HandlerIdle
    /\ CounterIdle
    /\ InstanceUnused

ScanNext == GetFromFile /\ UNCHANGED <<getVars, matchVars, cidVars, hdlVars, cntVars, idVars>>

ScanSpec == ScanInit /\ [][ScanNext]_vars

\* podIDRegex applied to one line, for every line of RegexTexts.
MatchInit ==
    /\ GetInit
    /\ nCallers = 1
    /\ path = MountInfoPath
    /\ file = [lines |-> <<>>, fault |-> NoFault, cut |-> 0]
    /\ openErr = NoErr
    /\ ScanIdle
    /\ subject \in RegexTexts
    /\ MatchIdle
    /\ CidUnused
    /\ HandlerIdle
    /\ CounterIdle
    /\ InstanceUnused

MatchNext == ApplyRegex /\ UNCHANGED <<getVars, scanVars, cidVars, hdlVars, cntVars, idVars>>

MatchSpec == MatchInit /\ [][MatchNext]_vars

\* Calls of getContainerID, one after the other, over every cpuset content,
\* mount table and provider.
CidInit ==
    /\ GetInit
    /\ nCallers = 1
    /\ path = MountInfoPath
    /\ file = [lines |-> <<>>, fault |-> NoFault, cut |-> 0]
    /\ openErr = NoErr
    /\ ScanIdle
    /\ subject = <<>>
    /\ MatchIdle
    /\ mountTable \in MountTables
    /\ mountOpenErr \in {NoErr, "ENOENT"}
    /\ getFunc \in {"file", "stub"}
    /\ CidIdle
    /\ HandlerIdle
    /\ CounterIdle
    /\ InstanceUnused

CidNext == getContainerID /\ UNCHANGED <<getVars, scanVars, matchVars, hdlVars, cntVars, idVars>>

CidSpec == CidInit /\ [][CidNext]_vars

\* Mutant of ContainerStep: containerid marks the cache of podid as filled.
ContainerStepSharesFlag ==
    /\ CallContaineridGet
    /\ hasID' = cidHasID'
    /\ UNCHANGED <<cachedID, mu, pc, id, err, nCallers, gets, calls, provided,
                   commits, flips, cur, dirty, log>>

\* A step of containerid.Get: cachedID, hasID and mu of containerid are
\* variables of that package, those of podid (podid.go:32-37) are others.
ContainerStep == CallContaineridGet /\ UNCHANGED getVars

\* A step of a goroutine in podid.Get.
PodStep == (\E p \in Procs : Get(p)) /\ UNCHANGED cidVars

\* Goroutines calling podid.Get while containerid.Get is called.
BothInit ==
    /\ GetInit
    /\ nCallers \in 1..NumProcs
    /\ path = MountInfoPath
    /\ file = [lines |-> <<>>, fault |-> NoFault, cut |-> 0]
    /\ openErr = NoErr
    /\ ScanIdle
    /\ subject = <<>>
    /\ MatchIdle
    /\ mountTable = [lines |-> << <<"/">> \o RunB >>, fault |-> NoFault]
    /\ mountOpenErr = NoErr
    /\ getFunc \in {"file", "stub"}
    /\ CidIdle
    /\ HandlerIdle
    /\ CounterIdle
    /\ InstanceUnused

BothNext == (PodStep \/ ContainerStep) /\ UNCHANGED <<scanVars, matchVars, hdlVars, cntVars, idVars>>

BothSpec == BothInit /\ [][BothNext]_vars

\* Requests to /pod_id and /container_id and direct calls of the response
\* writers, one after the other.
HandlerInit ==
    /\ GetInit
    /\ nCallers = 1
    /\ path = MountInfoPath
    /\ file = [lines |-> <<>>, fault |-> NoFault, cut |-> 0]
    /\ openErr = NoErr
    /\ ScanIdle
    /\ subject = <<>>
    /\ MatchIdle
    /\ CidUnused
    /\ HandlerIdle
    /\ CounterIdle
    /\ InstanceUnused

HandlerNext == Serve /\ UNCHANGED <<getVars, scanVars, matchVars, cidVars, cntVars, idVars>>

HandlerSpec == HandlerInit /\ [][HandlerNext]_vars

\* Goroutines calling Get with the default provider, for every content of
\* the mount table of PodFiles and every outcome of os.Open.
DefaultInit ==
    /\ GetInit
    /\ nCallers \in 1..NumProcs
    /\ path = MountInfoPath
    /\ file \in PodFiles
    /\ openErr \in {NoErr, "ENOENT"}
    /\ ScanIdle
    /\ subject = <<>>
    /\ MatchIdle
    /\ CidUnused
    /\ HandlerIdle
    /\ CounterIdle
    /\ InstanceUnused

DefaultNext == GetDefault /\ UNCHANGED <<matchVars, cidVars, hdlVars, cntVars, idVars>>

DefaultSpec == DefaultInit /\ [][DefaultNext]_vars

\* Requests to /counter while the logging goroutine runs.
CounterInit ==
    /\ GetInit
    /\ nCallers = 1
    /\ path = MountInfoPath
    /\ file = [lines |-> <<>>, fault |-> NoFault, cut |-> 0]
    /\ openErr = NoErr
    /\ ScanIdle
    /\ subject = <<>>
    /\ MatchIdle
    /\ CidUnused
    /\ HandlerIdle
    /\ CounterIdle
    /\ InstanceUnused

CounterNext ==
    (CounterHandler \/ CounterLogger)
      /\ UNCHANGED <<getVars, scanVars, matchVars, cidVars, hdlVars, idVars>>

CounterSpec == CounterInit /\ [][CounterNext]_vars

\* One call of initInstanceID for every environment, clock and outcome of
\* rand.Read.
InstanceInit ==
    /\ GetInit
    /\ nCallers = 1
    /\ path = MountInfoPath
    /\ file = [lines |-> <<>>, fault |-> NoFault, cut |-> 0]
    /\ openErr = NoErr
    /\ ScanIdle
    /\ subject = <<>>
    /\ MatchIdle
    /\ CidUnused
    /\ HandlerIdle
    /\ CounterIdle
    /\ env \in EnvValues
    /\ now \in Timestamps
    /\ random \in RandomBytes
    /\ randErr \in {Nil, <<"EAGAIN">>}
    /\ instanceID \in {<<>>, <<"o", "l", "d">>}
    /\ InstanceIdle

InstanceNext ==
    initInstanceID
      /\ UNCHANGED <<getVars, scanVars, matchVars, cidVars, hdlVars, cntVars>>

InstanceSpec == InstanceInit /\ [][InstanceNext]_vars

\* ================================================================= claims
Failed(e) == e.prov # <<>> /\ e.prov[1].err # NoErr
Succeeded(e) == e.prov # <<>> /\ e.prov[1].err = NoErr
AllReturned == \A p \in Procs : pc[p] = "idle"

\* C1: with one caller on an initially empty cache, when the first Get's
\* provider succeeds, the second Get returns the identical identifier with a
\* nil error and the provider has been invoked exactly once in total.
C1_SecondGetIsCacheHit ==
    (nCallers = 1 /\ Len(log) >= 2 /\ log[1].err = NoErr) =>
        /\ log[2].err = NoErr
        /\ log[2].id = log[1].id
        /\ log[1].invoked = 1
        /\ log[2].invoked = 0
        /\ log[2].calls = 1

C1_Witness ==
    /\ nCallers = 1
    /\ Len(log) >= 2
    /\ Succeeded(log[1])
    /\ log[1].id \in IDs
    /\ log[2].id = log[1].id

\* C2: with one caller, a Get whose provider fails invokes the provider once
\* and returns the error; the next Get invokes the provider again; if that
\* invocation succeeds its value is returned, and every later Get returns the
\* same value without invoking the provider.
C2_FailureNotCached ==
    nCallers = 1 =>
      \A i \in 1..Len(log) :
        Failed(log[i]) =>
          /\ log[i].invoked = 1
          /\ log[i].err = log[i].prov[1].err
          /\ i + 1 <= Len(log) =>
               /\ log[i + 1].invoked = 1
               /\ log[i + 1].calls = log[i].calls + 1
               /\ Succeeded(log[i + 1]) =>
                    /\ log[i + 1].err = NoErr
                    /\ log[i + 1].id = log[i + 1].prov[1].id
                    /\ \A j \in (i + 2)..Len(log) :
                         /\ log[j].err = NoErr
                         /\ log[j].id = log[i + 1].id
                         /\ log[j].invoked = 0
                         /\ log[j].calls = log[i + 1].calls

C2_Witness ==
    /\ nCallers = 1
    /\ Len(log) = 3
    /\ Failed(log[1])
    /\ Succeeded(log[2])
    /\ log[2].id \in IDs
    /\ log[3].id = log[2].id
    /\ log[3].invoked = 0

\* C3: in every interleaving, no step lowers hasID once it is true, and hasID
\* goes from false to true at most once.
C3_HasIDMonotone == [][(hasID => hasID') /\ flips' <= 1]_vars

C3_Witness ==
    /\ hasID
    /\ commits >= 2
    /\ \E i \in 1..Len(log) : Failed(log[i]) /\ log[i].commitsAtLock = 0 /\ log[i].calls >= 2

\* C4: once hasID is true cachedID is never overwritten with a different
\* value, and all Get calls that return an identifier return the same one.
C4_CachedValueImmutable ==
    [][/\ hasID => cachedID' = cachedID
       /\ \A i, j \in 1..Len(log') :
            log'[i].err = NoErr /\ log'[j].err = NoErr => log'[i].id = log'[j].id]_vars

\* C5: a Get whose provider returned an error has changed neither cachedID
\* nor hasID in any of its steps.
C5_FailureLeavesCache ==
    /\ \A p \in Procs : pc[p] = "l55" => ~dirty[p]
    /\ \A i \in 1..Len(log) : Failed(log[i]) => ~log[i].dirty

C5_Witness ==
    \E i \in 1..Len(log) : Failed(log[i]) /\ log[i].err # NoErr /\ ~hasID /\ cachedID = Empty

\* C6: a Get whose provider failed returns the provider's error value itself
\* and the empty identifier.
C6_ErrorPropagatedUnchanged ==
    \A i \in 1..Len(log) :
        Failed(log[i]) => log[i].err = log[i].prov[1].err /\ log[i].id = Empty

C6_Witness ==
    \E i \in 1..Len(log) :
        Failed(log[i]) /\ log[i].prov[1].id # Empty /\ log[i].id = Empty

\* C7: a Get that takes the read lock after a write-locked section has
\* completed goes down the hit path only: it never reaches the provider or
\* the write section, and it returns the value the cache held with a nil
\* error.
C7_HitPathSkipsProvider ==
    /\ \A p \in Procs :
         cur[p].commitsAtLock > 0 =>
            /\ pc[p] \in {"idle", "l46", "l47", "l48"}
            /\ cur[p].invoked = 0
    /\ \A i \in 1..Len(log) :
         log[i].commitsAtLock > 0 =>
            /\ log[i].invoked = 0
            /\ log[i].err = NoErr
            /\ log[i].id = log[i].cacheAtLock

C7_Witness ==
    \E i \in 1..Len(log) :
        /\ log[i].commitsAtLock > 0
        /\ log[i].id = Empty
        /\ \E p \in Procs : p # log[i].proc /\ pc[p] = "l58"

\* C8: the cache fields are read only under the read lock and written only
\* under the write lock, and a goroutine writing them excludes every other
\* goroutine reading or writing them.
Reading(p) == pc[p] \in {"l46", "l47"}
Writing(p) == pc[p] \in {"l59", "l60"}

C8_NoDataRace ==
    \A p \in Procs :
        /\ Reading(p) => p \in mu.readers /\ mu.writer = NoWriter
        /\ Writing(p) => mu.writer = p /\ mu.readers = {}
        /\ \A q \in Procs \ {p} : Writing(p) => ~Reading(q) /\ ~Writing(q)

C8_Witness ==
    \E p, q \in Procs :
        /\ p # q
        /\ Writing(p)
        /\ pc[q] \in {"l45", "l58"}

\* C9: when all Get calls have returned and some provider invocation
\* succeeded, the cache is present and holds a value some successful
\* invocation returned; every Get that returned an identifier returned one
\* that some successful invocation returned; the provider is invoked at most
\* once per Get.
C9_ConvergesToProvidedValue ==
    /\ (AllReturned /\ provided # {}) => hasID /\ cachedID \in provided
    /\ \A i \in 1..Len(log) : log[i].err = NoErr => log[i].id \in provided
    /\ calls <= gets

\* Every caller raced on the cold cache and invoked the provider.
C9_Witness ==
    /\ nCallers = NumProcs
    /\ AllReturned
    /\ gets = nCallers
    /\ calls = nCallers
    /\ Cardinality(provided) >= 2
    /\ hasID

\* C10: GetFromFile hands the lines to the matcher in file order and returns
\* at the first line that matches: a nil-error return carries the capture of
\* the first matching line, no line after it has been scanned, and whenever
\* the first matching line can be read the return is that capture with a nil
\* error, whatever follows it (more matches, over-long lines, read errors).
Readable(i) ==
    /\ i <= Len(file.lines)
    /\ file.fault = NoFault \/ i <= file.fault
    /\ \A j \in 1..i : ~TooLong(file.lines[j])

IsMatch(l) == FindStringSubmatch(l.text) # <<>>

\* What the scanner hands out as line j: the whole text, or its beginning
\* when reading failed inside the line.
Delivered(j) ==
    IF file.fault # NoFault /\ j > file.fault
    THEN SubSeq(file.lines[j].text, 1, Min(file.cut, Len(file.lines[j].text)))
    ELSE file.lines[j].text

FirstMatches ==
    {i \in 1..Len(file.lines) :
        IsMatch(file.lines[i]) /\ \A j \in 1..(i - 1) : ~IsMatch(file.lines[j])}

C10_FirstMatchWins ==
    /\ \A j \in 1..scanned :
          FindStringSubmatch(Delivered(j)) # <<>> => j = scanned /\ fpc \in {"l85", "done"}
    /\ (fpc = "done" /\ fret.err = NoErr) =>
          /\ scanned \in FirstMatches
          /\ fret.id = FindStringSubmatch(file.lines[scanned].text)[2]
    /\ (fpc = "done" /\ openErr = NoErr) =>
          \A i \in FirstMatches : Readable(i) => fret.err = NoErr /\ scanned = i

\* The first of two matching lines was returned; a different identifier and
\* a read error follow it.
C10_Witness ==
    /\ fpc = "done"
    /\ fret = [id |-> UUIDA, err |-> NoErr]
    /\ scanned = 2
    /\ Len(file.lines) = 3
    /\ file.lines[3].text = TextB
    /\ file.fault = 2

\* The text holds sub as a contiguous part.
Contains(text, sub) ==
    \E i \in 1..(Len(text) - Len(sub) + 1) : SubSeq(text, i, i + Len(sub) - 1) = sub

\* u has the textual form of a UUID: lowercase hex groups of 8, 4, 4, 4 and
\* 12 characters joined by hyphens.
IsPodUUID(u) ==
    /\ Len(u) = 36
    /\ \A k \in 1..36 : IF k \in {9, 14, 19, 24} THEN u[k] = "-" ELSE u[k] \in HexLower

SampleUUIDs == {UUIDA, UUIDB}

EtcHostsOf(u) ==
    <<"/", "p", "o", "d", "s", "/">> \o u
      \o <<"/", "e", "t", "c", "-", "h", "o", "s", "t", "s">>

\* C11: when the file opens and a line that can be read holds
\* /pods/u/etc-hosts for a pod UUID u, and no earlier line matches,
\* GetFromFile returns exactly the 36 characters of u and a nil error.
C11_ReturnsBareUUID ==
    (fpc = "done" /\ openErr = NoErr) =>
        \A i \in 1..Len(file.lines) : \A u \in SampleUUIDs :
            ( /\ IsPodUUID(u)
              /\ Readable(i)
              /\ Contains(file.lines[i].text, EtcHostsOf(u))
              /\ \A j \in 1..(i - 1) : ~IsMatch(file.lines[j]) ) =>
                /\ fret = [id |-> u, err |-> NoErr]
                /\ Len(fret.id) = 36
                /\ \A k \in 1..Len(fret.id) : fret.id[k] # "/"

C11_Witness ==
    /\ fpc = "done"
    /\ Len(file.lines) = 2
    /\ file.lines[1].text = TextNone
    /\ file.lines[2] = [text |-> TextB, pad |-> 0]
    /\ file.fault = NoFault
    /\ fret = [id |-> UUIDB, err |-> NoErr]

\* Reading the file never fails: no I/O error strikes and no line is longer
\* than the scanner accepts.
ReadToTheEnd ==
    /\ file.fault = NoFault \/ file.fault > Len(file.lines)
    /\ \A i \in 1..Len(file.lines) : ~TooLong(file.lines[i])

\* C12: when the file opens and is read to the end without an error and no
\* line matches, GetFromFile returns the empty identifier and the error
\* ErrPodIDNotFound itself.
C12_NoMatchIsNotFound ==
    ( /\ fpc = "done"
      /\ openErr = NoErr
      /\ ReadToTheEnd
      /\ \A i \in 1..Len(file.lines) : ~IsMatch(file.lines[i]) ) =>
        /\ fret.id = <<>>
        /\ fret.err = ErrPodIDNotFound
        /\ scanned = Len(file.lines)

C12_Witness ==
    /\ fpc = "done"
    /\ openErr = NoErr
    /\ Len(file.lines) = 2
    /\ \A i \in 1..2 : file.lines[i].text = TextNone
    /\ file.fault = NoFault
    /\ fret.err = ErrPodIDNotFound

\* C13: when os.Open fails, GetFromFile returns the empty identifier and an
\* error that names the path it was called with and wraps the error of
\* os.Open; the error is not ErrPodIDNotFound, the file is never scanned and
\* no handle is held.
C13_OpenFailure ==
    openErr # NoErr =>
        /\ fpc \in {"l69", "done"}
        /\ scanned = 0
        /\ line = <<>>
        /\ ~fileOpen
        /\ fpc = "done" =>
             /\ fret.id = <<>>
             /\ fret.err # ErrPodIDNotFound
             /\ fret.err # NoErr
             /\ fret.err[1] = "failed to open"
             /\ fret.err[2] = path
             /\ fret.err[3] = openErr

C13_Witness ==
    /\ fpc = "done"
    /\ openErr = "ENOENT"
    /\ path # MountInfoPath
    /\ Len(file.lines) > 0
    /\ IsMatch(file.lines[1])

\* The I/O error strikes before any line that was read whole has matched.
FaultBeforeMatch ==
    /\ file.fault # NoFault
    /\ file.fault <= Len(file.lines)
    /\ \A j \in 1..file.fault : ~TooLong(file.lines[j]) /\ ~IsMatch(file.lines[j])

\* C14: when an I/O error strikes during scanning before any line has
\* matched, GetFromFile returns the empty identifier and the wrapped read
\* error; ErrPodIDNotFound is returned only when the whole file was read
\* without an error.
C14_ReadErrorReported ==
    (fpc = "done" /\ openErr = NoErr) =>
        /\ FaultBeforeMatch =>
             /\ fret.id = <<>>
             /\ fret.err # ErrPodIDNotFound
             /\ fret.err # NoErr
             /\ fret.err[1] = "error reading"
             /\ fret.err[3] = "EIO"
        /\ fret.err = ErrPodIDNotFound => ReadToTheEnd

\* C15 as stated: a single line longer than the first buffer and at most the
\* 1 MB cap that holds the pattern yields the captured identifier.
C15_LongLineUpToCap ==
    ( /\ fpc = "done"
      /\ openErr = NoErr
      /\ file.fault = NoFault
      /\ Len(file.lines) = 1
      /\ LineLen(file.lines[1]) > StartBufSize
      /\ LineLen(file.lines[1]) <= MaxTokenSize ) =>
        \A u \in SampleUUIDs :
            Contains(file.lines[1].text, EtcHostsOf(u)) => fret = [id |-> u, err |-> NoErr]

\* C15 (amended): a single line longer than the 64 KB the buffer starts with
\* and shorter than the 1 MB cap that holds the pattern yields the captured
\* identifier and a nil error.
C15_LongLineBelowCap ==
    ( /\ fpc = "done"
      /\ openErr = NoErr
      /\ file.fault = NoFault
      /\ Len(file.lines) = 1
      /\ LineLen(file.lines[1]) > StartBufSize
      /\ LineLen(file.lines[1]) < MaxTokenSize ) =>
        \A u \in SampleUUIDs :
            Contains(file.lines[1].text, EtcHostsOf(u)) => fret = [id |-> u, err |-> NoErr]

C15_Witness ==
    /\ fpc = "done"
    /\ file.fault = NoFault
    /\ file.lines = <<PadTo(TextA, MaxTokenSize - 1)>>
    /\ fret = [id |-> UUIDA, err |-> NoErr]

\* The place i of the text starts the literal /pods/, a pod UUID right after
\* it and a / right after the UUID.
PodPathAt(text, i) ==
    /\ i + 42 <= Len(text)
    /\ SubSeq(text, i, i + 5) = <<"/", "p", "o", "d", "s", "/">>
    /\ IsPodUUID(SubSeq(text, i + 6, i + 41))
    /\ text[i + 42] = "/"

PodPaths(text) == {i \in 1..Len(text) : PodPathAt(text, i)}

\* C16: podIDRegex matches a line exactly when it holds /pods/, right after
\* it five lowercase-hex groups of 8, 4, 4, 4 and 12 characters joined by
\* hyphens and right after them a /; otherwise FindStringSubmatch returns
\* nothing, and with several matches the capture is the UUID of the leftmost.
C16_PodPattern ==
    applied =>
        IF PodPaths(subject) = {}
        THEN submatch = <<>>
        ELSE LET i == CHOOSE m \in PodPaths(subject) : \A n \in PodPaths(subject) : m <= n
             IN  /\ Len(submatch) = 2
                 /\ submatch[1] = SubSeq(subject, i, i + 42)
                 /\ submatch[2] = SubSeq(subject, i + 6, i + 41)

\* A line with two pod paths: the capture is the first one's UUID.
C16_Witness ==
    /\ applied
    /\ subject = PathOf(UUIDA) \o PathOf(UUIDB)
    /\ submatch[2] = UUIDA

\* A UUID with an uppercase digit before a valid one: only the valid one
\* matches.
C16_WitnessUpper ==
    /\ applied
    /\ subject = Replaced(PathOf(UUIDB), 15, "A") \o PathOf(UUIDA)
    /\ submatch[2] = UUIDA

\* The call read its cpuset and took the cgroup v1 branch / the fallback.
IsV1(e) == e.readErr = NoErr /\ TrimSpace(e.cpuset) # Root
IsV2(e) == e.readErr = NoErr /\ TrimSpace(e.cpuset) = Root

\* C17: when the trimmed cpuset content is not "/", getContainerID returns
\* without calling containerid.Get: the mount table is not opened and the
\* cache of containerid keeps its value.
C17_V1SkipsMountTable ==
    /\ gpc \in {"l109", "l111"} => TrimSpace(cpuset) = Root
    /\ \A i \in 1..Len(clog) :
         IsV1(clog[i]) =>
            /\ clog[i].gets = 0
            /\ clog[i].opens = 0
            /\ clog[i].got = <<>>
            /\ clog[i].cacheAfter = clog[i].cacheBefore

\* A fallback call filled the cache, then a cgroup v1 call returned abc.
C17_Witness ==
    /\ Len(clog) = 2
    /\ IsV2(clog[1])
    /\ clog[1].cacheAfter = <<RunA, TRUE>>
    /\ IsV1(clog[2])
    /\ clog[2].id = Abc
    /\ cidGets = 1

\* The last of the parts that is not empty, the empty text when all are.
LastNonEmpty(parts) ==
    LET full == {i \in 1..Len(parts) : parts[i] # <<>>}
    IN  IF full = {} THEN <<>>
        ELSE parts[CHOOSE m \in full : \A n \in full : n <= m]

\* C18: in the cgroup v1 case the identifier returned is the last non-empty
\* part of the content between slashes, with its newlines removed, for every
\* content.
C18_LastNonEmptySegment ==
    \A i \in 1..Len(clog) :
        IsV1(clog[i]) =>
            /\ clog[i].err = NoErr
            /\ clog[i].id = Replace(LastNonEmpty(Split(clog[i].cpuset)))

\* The lines of the mount table that are read whole.
MountReadable ==
    {i \in 1..Len(mountTable.lines) : mountTable.fault = NoFault \/ i <= mountTable.fault}

HasRun(text) == \E k \in 1..Len(text) : ContainerIDAt(text, k)

\* C19: when the trimmed cpuset content is "/", the default provider is in
\* place and the mount table opens and holds, in a line that can be read, a
\* run of 64 lowercase hex characters, getContainerID calls containerid.Get
\* and returns the run of the first such line with a nil error.
C19_FallbackReturnsRun ==
    \A i \in 1..Len(clog) :
        ( /\ IsV2(clog[i])
          /\ getFunc = "file"
          /\ mountOpenErr = NoErr
          /\ \E n \in MountReadable : HasRun(mountTable.lines[n]) ) =>
            LET hits == {n \in MountReadable : HasRun(mountTable.lines[n])}
                n0 == CHOOSE m \in hits : \A n \in hits : m <= n
            IN  /\ clog[i].err = NoErr
                /\ clog[i].gets = 1
                /\ Len(clog[i].id) = ContainerIDLen
                /\ \A k \in 1..Len(clog[i].id) : clog[i].id[k] \in HexLower
                /\ clog[i].id = FindContainerID(mountTable.lines[n0])

\* The second line of the table holds the run; the content is "/" and a
\* newline.
C19_Witness ==
    /\ Len(clog) >= 1
    /\ clog[1].cpuset = Root \o <<"\n">>
    /\ getFunc = "file"
    /\ Len(mountTable.lines) = 2
    /\ mountTable.lines[1] = TextNone
    /\ clog[1].id = RunB
    /\ clog[1].opens = 1

\* C20: when containerid.Get returns the empty identifier, with or without
\* an error, getContainerID returns ErrContainerIDNotFound and no identifier.
C20_EmptyIsNotFound ==
    \A i \in 1..Len(clog) :
        (clog[i].got # <<>> /\ clog[i].got[1].id = <<>>) =>
            /\ clog[i].id = <<>>
            /\ clog[i].err = ErrContainerIDNotFound

\* One call got the empty identifier with an error, the next without.
C20_Witness ==
    /\ Len(clog) = 2
    /\ clog[1].got = <<[id |-> <<>>, err |-> "temporary failure"]>>
    /\ clog[2].got = <<[id |-> <<>>, err |-> NoErr]>>
    /\ clog[2].err = ErrContainerIDNotFound

\* C21: when containerid.Get fails with an error other than not-found (the
\* mount table cannot be opened or read), getContainerID returns that error
\* unchanged, so that the failure is told apart from not-found.
C21_FallbackErrorPropagated ==
    \A i \in 1..Len(clog) :
        ( /\ clog[i].got # <<>>
          /\ clog[i].got[1].err \notin {NoErr, CidNotFound} ) =>
            /\ clog[i].err = clog[i].got[1].err
            /\ clog[i].err # ErrContainerIDNotFound

\* C22: when /proc/self/cpuset cannot be read, getContainerID returns the
\* error of the read with the empty identifier, makes no call of
\* containerid.Get and does not report not-found.
C22_ReadErrorReturned ==
    /\ gpc \in {"l103", "l109", "l111"} => readErr = NoErr
    /\ \A i \in 1..Len(clog) :
         clog[i].readErr # NoErr =>
            /\ clog[i].id = <<>>
            /\ clog[i].err = clog[i].readErr
            /\ clog[i].err # ErrContainerIDNotFound
            /\ clog[i].gets = 0
            /\ clog[i].opens = 0
            /\ clog[i].cacheAfter = clog[i].cacheBefore

\* A fallback call filled the cache, then the cpuset could not be read.
C22_Witness ==
    /\ Len(clog) = 2
    /\ clog[1].cacheAfter = <<RunA, TRUE>>
    /\ clog[2].readErr = "EACCES"
    /\ clog[2].err = "EACCES"
    /\ cidGets = 1

\* C23: getContainerID never returns a nil error with an empty identifier,
\* whatever the cpuset content and the outcome of containerid.Get.
C23_SuccessIsNonEmpty ==
    \A i \in 1..Len(clog) : clog[i].err = NoErr => clog[i].id # <<>>

\* The goroutine holds mu, for reading or for writing.
HoldsLock(p) == p \in mu.readers \/ mu.writer = p

\* C30: in Get the provider runs with no lock held: the read lock is released
\* before the provider is invoked, the write lock is taken only after the
\* provider has returned successfully and is held only for the two
\* assignments, so a caller inside the provider never keeps another caller
\* from reading the cache.
C30_ProviderRunsUnlocked ==
    \A p \in Procs :
        /\ pc[p] \in {"l53", "l55", "l58"} => ~HoldsLock(p)
        /\ mu.writer = p =>
              /\ pc[p] \in {"l59", "l60", "l61"}
              /\ Succeeded(cur[p])
        /\ \A q \in Procs \ {p} :
              (pc[p] = "l53" /\ pc[q] = "l45" /\ ~ENABLED RLock(q)) =>
                  \E r \in Procs \ {p} : mu.writer = r

\* One caller is about to invoke the provider while another reads the cache
\* under the read lock.
C30_Witness ==
    \E p, q \in Procs :
        /\ p # q
        /\ pc[p] = "l53"
        /\ pc[q] = "l47"
        /\ q \in mu.readers

\* The character a JSON escape stands for.
UnescapeChar(c) ==
    CASE c = "\\\"" -> "\""
      [] c = "\\\\" -> "\\"
      [] c = "\\n" -> "\n"
      [] c = "\\u003c" -> "<"
      [] c = "\\u003e" -> ">"
      [] c = "\\u0026" -> "&"
      [] OTHER -> c

\* The body is the JSON object {"data": s} for a string s.
IsDataBody(body) ==
    /\ Len(body) >= 4
    /\ body[1] = "{\"data\":"
    /\ body[2] = "\""
    /\ body[Len(body) - 1] = "\""
    /\ body[Len(body)] = "}"

\* The string s of such a body, decoded.
DataOf(body) == [k \in 1..(Len(body) - 4) |-> UnescapeChar(body[k + 2])]

\* The sentinel of the resolver behind an endpoint.
NotFoundOf(op) == IF op = "/pod_id" THEN ErrPodIDNotFound ELSE ErrContainerIDNotFound

\* C24: the /pod_id and /container_id handlers answer a not-found error with
\* 404, any other error with 500 and success with 200 and the identifier; no
\* error is answered with 200.
C24_StatusMapping ==
    \A i \in 1..Len(responses) :
        LET e == responses[i]
            notFound == \E k \in 1..Len(e.err) : e.err[k] = NotFoundOf(e.op)
        IN  e.op \in {"/pod_id", "/container_id"} =>
              /\ e.w.contentType = contentTypeJSON
              /\ e.err = Nil =>
                    /\ e.w.code = 200
                    /\ IsDataBody(e.w.body)
                    /\ DataOf(e.w.body) = e.id
              /\ (e.err # Nil /\ notFound) => e.w.code = 404
              /\ (e.err # Nil /\ ~notFound) => e.w.code = 500
              /\ e.err # Nil => e.w.code # 200

\* /pod_id answered a wrapped not-found error and /container_id answered an
\* identifier whose characters JSON escapes.
C24_Witness ==
    /\ Len(responses) = 2
    /\ responses[1].op = "/pod_id"
    /\ responses[1].err = <<"lookup failed", ErrPodIDNotFound>>
    /\ responses[1].w.code = 404
    /\ responses[2].op = "/container_id"
    /\ responses[2].id = <<"a", "<", "\"", "b">>
    /\ responses[2].w.code = 200

\* json.Marshal encodes the value: no channel in it.
Marshalable(v) ==
    /\ v.kind # "chan"
    /\ v.kind = "responseSuccess" => v.Data.kind # "chan"

\* The body starts a JSON document.
LooksLikeJSON(body) ==
    body # <<>> /\ body[1] \in {"\"", "{\"data\":", "{\"errors\":{\"message\":"}

\* C29: writeJSONResponse writes the caller's status, the JSON content type
\* and the marshalled body when marshalling succeeds, and status 500 without
\* the JSON content type or any part of a JSON body when it fails;
\* writeJSONSuccess uses status 200 and writeJSONError the status it is given.
C29_WriteJSON ==
    \A i \in 1..Len(responses) :
        LET e == responses[i]
        IN  /\ e.op = "writeJSONResponse" =>
                IF Marshalable(e.data)
                THEN /\ e.w.code = e.status
                     /\ e.w.contentType = contentTypeJSON
                     /\ e.w.body = Marshal(e.data).b
                     /\ LooksLikeJSON(e.w.body)
                ELSE /\ e.w.code = 500
                     /\ e.w.contentType # contentTypeJSON
                     /\ ~LooksLikeJSON(e.w.body)
            /\ e.op = "writeJSONSuccess" =>
                IF Marshalable(e.data)
                THEN /\ e.w.code = 200
                     /\ e.w.contentType = contentTypeJSON
                     /\ IsDataBody(e.w.body)
                     /\ DataOf(e.w.body) = e.data.val
                ELSE /\ e.w.code = 500
                     /\ e.w.contentType # contentTypeJSON
            /\ e.op = "writeJSONError" =>
                /\ e.w.code = e.status
                /\ e.w.contentType = contentTypeJSON
                /\ e.w.body[1] = "{\"errors\":{\"message\":"

\* A channel was handed to writeJSONResponse with status 200, and
\* writeJSONError was called with status 404.
C29_Witness ==
    /\ Len(responses) = 2
    /\ responses[1].op = "writeJSONResponse"
    /\ responses[1].data = Chan
    /\ responses[1].status = 200
    /\ responses[1].w.code = 500
    /\ responses[2].op = "writeJSONError"
    /\ responses[2].status = 404
    /\ responses[2].w.code = 404

RECURSIVE ParseUint(_)
ParseUint(t) ==
    IF t = <<>> THEN 0
    ELSE 10 * ParseUint(SubSeq(t, 1, Len(t) - 1))
           + ((CHOOSE d \in 1..10 : Digits[d] = t[Len(t)]) - 1)

\* C26: successive requests to /counter are answered 1, 2, 3, ..., each
\* answer one greater than the one before, for as long as the server runs.
C26_CounterIncrements ==
    \A i \in 1..Len(counterResp) :
        /\ counterResp[i].code = 200
        /\ IsDataBody(counterResp[i].body)
        /\ ParseUint(DataOf(counterResp[i].body)) = i

\* The value of a lowercase hex digit.
HexValue(c) == (CHOOSE d \in 1..16 : HexDigits[d] = c) - 1

\* The text has the shape of a UUID version 7 made at the given time: five
\* lowercase hex groups of 8, 4, 4, 4 and 12 digits, a 7 leading the third,
\* one of 8, 9, a, b leading the fourth, and the time of day in milliseconds
\* in the first 48 bits, most significant byte first.
IsUUIDv7At(u, timestamp) ==
    /\ Len(u) = 36
    /\ \A k \in 1..36 : IF k \in {9, 14, 19, 24} THEN u[k] = "-" ELSE u[k] \in HexLower
    /\ u[15] = "7"
    /\ u[20] \in {"8", "9", "a", "b"}
    /\ timestamp[1] = 0 /\ timestamp[2] = 0
    /\ LET digits == SubSeq(u, 1, 8) \o SubSeq(u, 10, 13)
       IN  \A k \in 1..6 :
              16 * HexValue(digits[2 * k - 1]) + HexValue(digits[2 * k]) = timestamp[k + 2]

\* C27: for every timestamp and every random bytes, generateRandomID returns
\* five lowercase hex groups of lengths 8-4-4-4-12 with 7 as first digit of
\* the third group, one of 8, 9, a, b as first digit of the fourth, and the
\* millisecond timestamp, big-endian, in the first 48 bits.
C27_UUIDv7Shape ==
    (generated = 1 /\ randErr = Nil) =>
        /\ ierr = Nil
        /\ IsUUIDv7At(iid, now)

\* An identifier made on 2026-11-06 from random bytes whose version and
\* variant bits were all set.
C27_Witness ==
    /\ generated = 1
    /\ randErr = Nil
    /\ now = <<0, 0, 1, 161, 178, 164, 180, 0>>
    /\ random[1] = 255
    /\ random[3] = 255
    /\ SubSeq(iid, 1, 13) = <<"0", "1", "a", "1", "b", "2", "a", "4", "-", "b", "4", "0", "0">>
    /\ iid[15] = "7"
    /\ iid[20] = "b"

\* C28: initInstanceID sets instanceID to a non-empty INSTANCE_ID without
\* generating an ID; otherwise to a newly generated, non-empty UUIDv7; when
\* the generation fails it returns the error and leaves instanceID as it was.
C28_InitInstanceID ==
    ipc = "done" =>
        /\ env # <<>> =>
              /\ instanceID = env
              /\ generated = 0
              /\ initRet = Nil
        /\ (env = <<>> /\ randErr = Nil) =>
              /\ generated = 1
              /\ initRet = Nil
              /\ instanceID # <<>>
              /\ IsUUIDv7At(instanceID, now)
        /\ (env = <<>> /\ randErr # Nil) =>
              /\ generated = 1
              /\ initRet # Nil
              /\ initRet = <<"failed to generate random ID">> \o randErr
              /\ instanceID = instanceBefore

\* The generation failed and instanceID kept the value it had.
C28_Witness ==
    /\ ipc = "done"
    /\ env = <<>>
    /\ randErr # Nil
    /\ instanceBefore = <<"o", "l", "d">>
    /\ instanceID = <<"o", "l", "d">>
    /\ initRet # Nil

\* C31: the file handle GetFromFile opens is released on every exit path:
\* once GetFromFile has returned, with a match, not-found or a read error,
\* the file is closed, and when the open fails no handle is held.
C31_FileClosedOnReturn ==
    /\ fpc = "done" => ~fileOpen
    /\ openErr # NoErr => ~fileOpen
    /\ fileOpen => fpc \in {"l77", "l85", "l94"}

\* GetFromFile has returned a read error after handing out a line, and the
\* file is closed.
C31_Witness ==
    /\ fpc = "done"
    /\ openErr = NoErr
    /\ scanned >= 1
    /\ scanErr = "EIO"
    /\ fret.id = <<>>
    /\ ~fileOpen

\* The lines longer than the cap of the scanner.
OverLong == {i \in 1..Len(file.lines) : LineLen(file.lines[i]) > MaxTokenSize}

\* The over-long line i is reached: the file opens, no read fails before the
\* line is read, and no line before it matches.
ReachedOverLong(i) ==
    /\ openErr = NoErr
    /\ i \in OverLong
    /\ file.fault = NoFault \/ file.fault >= i
    /\ \A j \in 1..(i - 1) :
         ~IsMatch(file.lines[j]) /\ LineLen(file.lines[j]) < MaxTokenSize

\* C32: when a line longer than the 1 MB cap is reached before any match,
\* the scan stops there and GetFromFile returns the wrapped read error: not
\* the not-found error, and no identifier from that line or a later one.
C32_OverLongLineIsError ==
    \A i \in 1..Len(file.lines) :
        (ReachedOverLong(i) /\ fpc = "done") =>
            /\ fret.id = <<>>
            /\ fret.err = ReadError(path, "ErrTooLong")
            /\ scanned = i - 1

\* A line without a match, then an over-long line that starts with a pod
\* path, then a line with another pod path.
C32_Witness ==
    /\ fpc = "done"
    /\ openErr = NoErr
    /\ Len(file.lines) = 3
    /\ file.fault = NoFault
    /\ file.lines[1] = [text |-> TextNone, pad |-> 0]
    /\ file.lines[2] = [text |-> TextB, pad |-> HugePad]
    /\ file.lines[3] = [text |-> TextA, pad |-> 0]
    /\ scanned = 1

\* IsInPod (podid.go:109-114) and MustGet (lines 123-128) on the result of
\* their call of Get.
IsInPod(res) == res.err = NoErr /\ res.id # <<>>
MustGetPanics(res) == res.err # NoErr

\* C33: with the default provider the cache of podid never holds a present
\* but empty entry: hasID implies that cachedID is a 36-character string of
\* the UUID shape, so that once a Get has succeeded IsInPod returns true and
\* MustGet does not panic.
C33_CachedIsUUID ==
    /\ hasID => cachedID # <<>> /\ IsPodUUID(cachedID)
    /\ \A i \in 1..Len(log) :
         /\ log[i].err = NoErr => IsPodUUID(log[i].id) /\ IsInPod(log[i])
         /\ log[i].commitsAtLock >= 1 => IsInPod(log[i]) /\ ~MustGetPanics(log[i])

\* The identifier came from a line cut short by a read error, was stored,
\* and a later Get returned it from the cache.
C33_Witness ==
    /\ hasID
    /\ cachedID = UUIDB
    /\ file.cut = 51
    /\ \E i \in 1..Len(log) : log[i].commitsAtLock >= 1 /\ log[i].invoked = 0

\* C34: Get cannot deadlock: it never asks for the write lock while it holds
\* the read lock, it holds no lock when it returns, and under fair scheduling
\* with a provider that terminates every call of Get returns.
C34_NoDeadlock ==
    /\ [](\A p \in Procs :
             /\ pc[p] = "l58" => p \notin mu.readers
             /\ pc[p] = "idle" => ~HoldsLock(p))
    /\ \A p \in Procs : (pc[p] # "idle") ~> (pc[p] = "idle")

\* All calls have returned after two goroutines each stored a value.
C34_Witness ==
    /\ gets = MaxGets
    /\ AllReturned
    /\ nCallers >= 2
    /\ commits >= 2
    /\ mu = [readers |-> {}, writer |-> NoWriter]

\* The sum of the counts that were set back to 0.
RECURSIVE ResetTotal(_)
ResetTotal(l) ==
    IF l = <<>> THEN 0
    ELSE (IF Head(l).swapped THEN Head(l).old ELSE 0) + ResetTotal(Tail(l))

\* The counts the compare-and-swaps were made against, zero ones left out.
RECURSIVE ComparedCounts(_)
ComparedCounts(l) ==
    IF l = <<>> THEN <<>>
    ELSE (IF Head(l).old # 0 THEN <<Head(l).old>> ELSE <<>>) \o ComparedCounts(Tail(l))

\* C35: the logging goroutine sets the counter back to 0 only by a
\* compare-and-swap against the count it just loaded and logged: when a
\* /counter request comes between the load and the compare-and-swap the
\* counter keeps its value, each reset that happens zeroes exactly the count
\* logged in that iteration, and no request is lost.
C35_ResetOnlyLoggedCount ==
    /\ \A i \in 1..Len(casLog) :
         IF casLog[i].swapped
         THEN casLog[i].found = casLog[i].old /\ casLog[i].after = 0
         ELSE casLog[i].found > casLog[i].old /\ casLog[i].after = casLog[i].found
    /\ ComparedCounts(casLog) =
         IF lpc = "l327" /\ currCount # 0
         THEN SubSeq(logged, 1, Len(logged) - 1)
         ELSE logged
    /\ ResetTotal(casLog) + counter = counterReqs

\* A request came between the load and the compare-and-swap, which failed;
\* the next iteration logged the larger count and set the counter to 0.
C35_Witness ==
    /\ Len(casLog) = 2
    /\ casLog[1] = [old |-> 1, found |-> 2, swapped |-> FALSE, after |-> 2]
    /\ casLog[2] = [old |-> 2, found |-> 2, swapped |-> TRUE, after |-> 0]
    /\ logged = <<1, 2>>
    /\ counter = 0
====
